---- MODULE Spec2Model ----
(***************************************************************************)
(* The single-table hand engine (class HandEngine) of llm-holdem and the   *)
(* loop that drives it one decision at a time.  Chip amounts are scaled    *)
(* down (blinds 1/2 and 2/4 instead of 10/20 and 20/40); every rule of the *)
(* engine is kept as the code computes it.                                 *)
(***************************************************************************)
EXTENDS Integers, Sequences, FiniteSets, TLC

\* ------------------------------------------------------------------ bounds
\* Most chips on the table when the match starts (sum of the stacks); also the
\* largest amount a decision carries.
MaxChips == 6
\* Hands the driver plays before it stops.
MaxHands == 2
\* The street action count stops counting here.
MaxCount == 3
\* the number of invocations of tickMatch followed for one match
MaxTicks == 3

\* ------------------------------------------------------- configuration
\* The seat indexes of the table (a table with gaps, as in the rules script).
SeatIndexes == {0, 1, 3, 5}

\* options.blindLevels of the constructor.
blindLevels == << [smallBlind |-> 1, bigBlind |-> 2],
                 [smallBlind |-> 2, bigBlind |-> 4] >>

\* options.handsPerLevel of the constructor.
handsPerLevel == 1

STREETS == << "preflop", "flop", "turn", "river" >>

NoSeat == -1

\* ------------------------------------------------------------ helpers
Min(a, b) == IF a < b THEN a ELSE b
Max(a, b) == IF a > b THEN a ELSE b

RECURSIVE SumOver(_, _)
\* sum of f[x] over the finite set S (Array.prototype.reduce with +)
SumOver(f, S) ==
  IF S = {} THEN 0
  ELSE LET x == CHOOSE y \in S : TRUE IN f[x] + SumOver(f, S \ {x})

RECURSIVE SortAscending(_)
\* [...set].sort((a, b) => a - b)
SortAscending(S) ==
  IF S = {} THEN << >>
  ELSE LET m == CHOOSE x \in S : \A y \in S : x <= y
       IN << m >> \o SortAscending(S \ {m})

\* Array.prototype.indexOf, 0-based, -1 when absent
IndexOf(seq, x) ==
  IF \E i \in 1..Len(seq) : seq[i] = x
  THEN (CHOOSE i \in 1..Len(seq) : seq[i] = x /\ \A j \in 1..(i-1) : seq[j] # x) - 1
  ELSE -1

Range(seq) == { seq[i] : i \in 1..Len(seq) }

\* ------------------------------------------------------------- cards
RANKS == << "2", "3", "4", "5", "6", "7", "8", "9", "T", "J", "Q", "K", "A" >>
SUITS == << "s", "h", "d", "c" >>

\* rank-major, suit-minor
createDeck ==
  LET cards[n \in 0..(Len(RANKS) * Len(SUITS))] ==
        IF n = 0 THEN << >>
        ELSE Append(cards[n - 1],
                    RANKS[((n - 1) \div Len(SUITS)) + 1]
                      \o SUITS[((n - 1) % Len(SUITS)) + 1])
  IN cards[Len(RANKS) * Len(SUITS)]

\* ------------------------------------------------- seating and button
getBlindLevel(handNumber) ==
  LET levelIndex == (Max(handNumber, 1) - 1) \div handsPerLevel
  IN blindLevels[Min(levelIndex, Len(blindLevels) - 1) + 1]

\* activeSeatSet: the seat indexes of the seats passed in
\* a faulty variant of ensureTableSeatOrder that forgets the seats that are no
\* longer passed in
ensureTableSeatOrderActiveOnly(order, activeSeatSet) ==
  SortAscending(activeSeatSet)

ensureTableSeatOrder(order, activeSeatSet) ==
  SortAscending(Range(order) \cup activeSeatSet)

\* order is this.tableSeatOrder; NoSeat stands for the thrown error
nextPhysicalSeatIndex(order, fromSeatIndex) ==
  IF Len(order) = 0 THEN NoSeat
  ELSE IF fromSeatIndex < 0 \/ fromSeatIndex \notin Range(order) THEN order[1]
  ELSE order[((IndexOf(order, fromSeatIndex) + 1) % Len(order)) + 1]

RECURSIVE walkToActive(_, _, _, _)
walkToActive(order, cursor, activeSeatSet, i) ==
  IF i >= Len(order) THEN NoSeat
  ELSE LET next == nextPhysicalSeatIndex(order, cursor)
       IN IF next \in activeSeatSet THEN next
          ELSE walkToActive(order, next, activeSeatSet, i + 1)

\* a faulty variant of nextActiveSeatIndex that takes the active seat of lowest
\* index, wherever the walk starts
nextActiveSeatLowest(order, fromSeatIndex, activeSeatSet) ==
  IF activeSeatSet = {} THEN NoSeat
  ELSE CHOOSE s \in activeSeatSet : \A v \in activeSeatSet : s <= v

nextActiveSeatIndex(order, fromSeatIndex, activeSeatSet) ==
  IF activeSeatSet = {} THEN NoSeat
  ELSE walkToActive(order, fromSeatIndex, activeSeatSet, 0)

RECURSIVE buildOrderFrom(_, _, _, _)
buildOrderFrom(order, cursor, activeSeatSet, n) ==
  IF n = 0 THEN << >>
  ELSE LET next == nextActiveSeatIndex(order, cursor, activeSeatSet)
       IN << next >> \o buildOrderFrom(order, next, activeSeatSet, n - 1)

\* a faulty variant of buildActionOrder that orders the seats by seat index,
\* wherever the start is
buildActionOrderAscending(order, startAfterSeatIndex, activeSeatSet) ==
  SortAscending(activeSeatSet)

buildActionOrder(order, startAfterSeatIndex, activeSeatSet) ==
  buildOrderFrom(order, startAfterSeatIndex, activeSeatSet, Cardinality(activeSeatSet))

RECURSIVE collectClockwise(_, _, _, _)
collectClockwise(order, cursor, remaining, i) ==
  IF i >= Len(order) \/ remaining = {} THEN << >>
  ELSE LET next == nextPhysicalSeatIndex(order, cursor)
       IN IF next \in remaining
          THEN << next >> \o collectClockwise(order, next, remaining \ {next}, i + 1)
          ELSE collectClockwise(order, next, remaining, i + 1)

\* a faulty variant of orderSeatIndexesClockwiseFrom that orders the seats by
\* seat index, wherever the button is
orderSeatIndexesAscending(order, startAfterSeatIndex, seatIndexes) ==
  SortAscending(seatIndexes)

\* seatIndexes: the set of the seat indexes to order
orderSeatIndexesClockwiseFrom(order, startAfterSeatIndex, seatIndexes) ==
  collectClockwise(order, startAfterSeatIndex, seatIndexes, 0)

\* ---------------------------------------------- 32-bit words (cards.ts)
\* A 32-bit word is << high 16 bits, low 16 bits >>.
Pow2(k) == 2 ^ k

\* bit k of a
Bit(a, k) == (a \div Pow2(k)) % 2

\* a ^ b for 4-bit a, b
Xor4(a, b) ==
  ((Bit(a, 0) + Bit(b, 0)) % 2) + (2 * ((Bit(a, 1) + Bit(b, 1)) % 2))
  + (4 * ((Bit(a, 2) + Bit(b, 2)) % 2)) + (8 * ((Bit(a, 3) + Bit(b, 3)) % 2))

\* a | b for 4-bit a, b
Or4(a, b) == a + b - (((a + b) - Xor4(a, b)) \div 2)

\* a ^ b for 16-bit a, b, four bits at a time
Xor16(a, b) ==
  Xor4(a % 16, b % 16) + (16 * Xor4((a \div 16) % 16, (b \div 16) % 16))
  + (256 * Xor4((a \div 256) % 16, (b \div 256) % 16))
  + (4096 * Xor4(a \div 4096, b \div 4096))

\* a | b for 16-bit a, b, four bits at a time
Or16(a, b) ==
  Or4(a % 16, b % 16) + (16 * Or4((a \div 16) % 16, (b \div 16) % 16))
  + (256 * Or4((a \div 256) % 16, (b \div 256) % 16))
  + (4096 * Or4(a \div 4096, b \div 4096))

\* x ^ y
Xor32(x, y) == << Xor16(x[1], y[1]), Xor16(x[2], y[2]) >>

\* x | y
Or32(x, y) == << Or16(x[1], y[1]), Or16(x[2], y[2]) >>

\* (x + y) | 0
Add32(x, y) ==
  << (x[1] + y[1] + ((x[2] + y[2]) \div 65536)) % 65536, (x[2] + y[2]) % 65536 >>

\* x >>> k
Shr32(x, k) ==
  IF k >= 16 THEN << 0, x[1] \div Pow2(k - 16) >>
  ELSE << x[1] \div Pow2(k), ((x[1] % Pow2(k)) * Pow2(16 - k)) + (x[2] \div Pow2(k)) >>

\* x << k
Shl32(x, k) ==
  IF k >= 16 THEN << (x[2] * Pow2(k - 16)) % 65536, 0 >>
  ELSE << (((x[1] * Pow2(k)) % 65536) + (x[2] \div Pow2(16 - k))) % 65536,
          (x[2] * Pow2(k)) % 65536 >>

\* (u * v) mod 2^16 for 16-bit u, v, without leaving 32 bits
MulLow16(u, v) ==
  (((u % 256) * v) + ((((u \div 256) * v) % 256) * 256)) % 65536

\* (u * v) div 2^16 for 16-bit u, v
MulHigh16(u, v) ==
  LET p1 == (u % 256) * v
      p2 == (u \div 256) * v
  IN (p2 \div 256) + ((p1 + ((p2 % 256) * 256)) \div 65536)

\* Math.imul(x, y)
Imul32(x, y) ==
  << (MulHigh16(x[2], y[2]) + MulLow16(x[1], y[2]) + MulLow16(x[2], y[1])) % 65536,
     MulLow16(x[2], y[2]) >>

\* the loop of cyrb128 over the character codes 1..n of input, from the hash
\* words h = << h1, h2, h3, h4 >>
cyrb128Mix(input, n, h) ==
  LET mixStep(g, code) ==
        LET h1 == Xor32(g[2], Imul32(Xor32(g[1], code), << 9115, 38427 >>))
            h2 == Xor32(g[3], Imul32(Xor32(g[2], code), << 43790, 38793 >>))
            h3 == Xor32(g[4], Imul32(Xor32(g[3], code), << 14515, 19173 >>))
            h4 == Xor32(h1, Imul32(Xor32(g[4], code), << 41443, 35731 >>))
        IN << h1, h2, h3, h4 >>
      mix[i \in 0..n] ==
        IF i = 0 THEN h
        ELSE LET before == mix[i - 1]
             IN IF Len(before) = Len(h) THEN mixStep(before, << 0, input[i] >>)
                ELSE before
  IN mix[n]

\* the last mixing of cyrb128, on the hash words h the loop leaves
cyrb128Final(h) ==
  LET h1 == Imul32(Xor32(h[3], Shr32(h[1], 18)), << 9115, 38427 >>)
      h2 == Imul32(Xor32(h[4], Shr32(h[2], 22)), << 43790, 38793 >>)
      h3 == Imul32(Xor32(h1, Shr32(h[3], 17)), << 14515, 19173 >>)
      h4 == Imul32(Xor32(h2, Shr32(h[4], 19)), << 41443, 35731 >>)
  IN << Xor32(Xor32(h1, h2), Xor32(h3, h4)), h2, h3, h4 >>

\* input: the character codes of the seed string
cyrb128(input) ==
  cyrb128Final(cyrb128Mix(input, Len(input),
                          << << 27145, 58983 >>, << 47975, 44677 >>,
                             << 15470, 62322 >>, << 42319, 62778 >> >>))

\* one call of the generator sfc32 returns: st = << a, b, c, d >>;
\* gives the new state and the 32-bit value drawn
sfc32(st) ==
  LET t == Add32(st[1], st[2])
      a == Xor32(st[2], Shr32(st[2], 9))
      b == Add32(st[3], Shl32(st[3], 3))
      c == Or32(Shl32(st[3], 21), Shr32(st[3], 11))
      d == Add32(st[4], << 0, 1 >>)
      value == Add32(t, d)
  IN [ st |-> << a, b, Add32(c, value), d >>, value |-> value ]

\* Math.floor((value / 4294967296) * n) for n <= 52
ScaleDraw(value, n) ==
  ((value[1] * n) + ((value[2] * n) \div 65536)) \div 65536

\* a faulty variant of fisherYatesStep that copies deck[j] to deck[i] without
\* swapping
fisherYatesStepCopy(run, i) ==
  LET draw == sfc32(run.st)
      j == ScaleDraw(draw.value, i + 1)
  IN [ deck |-> [ run.deck EXCEPT ![i + 1] = run.deck[j + 1] ],
       st |-> draw.st ]

\* one pass of the loop of shuffleDeckWithSeed at index i (0-based):
\* draws j in 0..i and swaps deck[i] and deck[j]; run = [ deck, st ]
fisherYatesStep(run, i) ==
  LET draw == sfc32(run.st)
      j == ScaleDraw(draw.value, i + 1)
  IN [ deck |-> [ run.deck EXCEPT ![i + 1] = run.deck[j + 1],
                                  ![j + 1] = run.deck[i + 1] ],
       st |-> draw.st ]

\* the passes for the indexes from, from - 1, .., from - count + 1, in that order
fisherYatesPasses(run, from, count) ==
  LET pass[k \in 0..count] ==
        IF k = 0 THEN run
        ELSE LET before == pass[k - 1]
             IN IF Len(before.deck) = Len(run.deck)
                THEN fisherYatesStep(before, from - k + 1)
                ELSE before
  IN pass[count]

\* the loop of shuffleDeckWithSeed: the passes for the indexes last, .., 1,
\* taken eight at a time
fisherYates(deck, st) ==
  LET last == Len(deck) - 1
      blocks[c \in 0..((last + 7) \div 8)] ==
        IF c = 0 THEN [ deck |-> deck, st |-> st ]
        ELSE LET before == blocks[c - 1]
                 from == last - (8 * (c - 1))
             IN IF Len(before.st) = Len(st)
                THEN fisherYatesPasses(before, from, Min(8, from))
                ELSE before
  IN IF Len(st) > 0 THEN blocks[(last + 7) \div 8].deck ELSE deck

\* seed: the character codes of the seed string
shuffleDeckWithSeed(seed) == fisherYates(createDeck, cyrb128(seed))

\* options.matchSeed of the constructor, as character codes: "verify-1"
matchSeed == << 118, 101, 114, 105, 102, 121, 45, 49 >>

\* the character codes of String(n), for n >= 0
DecimalCodes(n) ==
  LET codes[m \in 0..n] ==
        IF m < 10 THEN << 48 + m >> ELSE Append(codes[m \div 10], 48 + (m % 10))
  IN codes[n]

\* `${this.matchSeed}:${handNumber}`
HandSeed(hand) == matchSeed \o << 58 >> \o DecimalCodes(hand)

\* the decks of the hands of the match, one shuffle per hand number
HandDecks ==
  LET decks[n \in 0..(MaxHands + 1)] ==
        IF n = 0 THEN << >>
        ELSE Append(decks[n - 1], shuffleDeckWithSeed(HandSeed(n)))
  IN decks[MaxHands + 1]

\* ------------------------------------------------------ hand engine
\* a faulty variant of postBlind that posts the blind without taking it from
\* the stack
postBlindWithoutDebit(players, seatIndex, amount) ==
  IF seatIndex \notin DOMAIN players THEN players
  ELSE LET player == players[seatIndex]
           posted == Min(player.stack, amount)
       IN [players EXCEPT ![seatIndex] =
             [player EXCEPT !.totalContribution = player.totalContribution + posted,
                            !.streetContribution = player.streetContribution + posted]]

\* a faulty variant of postBlind that never flags the seat all-in
postBlindNeverAllIn(players, seatIndex, amount) ==
  IF seatIndex \notin DOMAIN players THEN players
  ELSE LET player == players[seatIndex]
           posted == Min(player.stack, amount)
       IN [players EXCEPT ![seatIndex] =
             [player EXCEPT !.stack = player.stack - posted,
                            !.totalContribution = player.totalContribution + posted,
                            !.streetContribution = player.streetContribution + posted]]

\* players: seat index -> PlayerState (the Map's keys are the seats of the hand)
postBlind(players, seatIndex, amount) ==
  IF seatIndex \notin DOMAIN players THEN players
  ELSE LET player == players[seatIndex]
           posted == Min(player.stack, amount)
       IN [players EXCEPT ![seatIndex] =
             [player EXCEPT !.stack = player.stack - posted,
                            !.totalContribution = player.totalContribution + posted,
                            !.streetContribution = player.streetContribution + posted,
                            !.allIn = (player.stack - posted <= 0)]]

\* activeSeats: seat index -> stack, for the seats passed in (alive);
\* returns the new tableSeatOrder, the new buttonSeatIndex and the hand state
\* initializeHand once the deck of the hand is shuffled
dealHand(order0, button0, activeSeats, hand, deck) ==
  LET activeSeatSet == DOMAIN activeSeats
      order == ensureTableSeatOrder(order0, activeSeatSet)
      sortedSeats == SortAscending(activeSeatSet)
      isHeadsUp == Len(sortedSeats) = 2
      buttonSeatIndex ==
        IF isHeadsUp THEN nextActiveSeatIndex(order, button0, activeSeatSet)
        ELSE nextPhysicalSeatIndex(order, button0)
      smallBlindSeatIndex ==
        IF isHeadsUp THEN buttonSeatIndex
        ELSE nextActiveSeatIndex(order, buttonSeatIndex, activeSeatSet)
      bigBlindSeatIndex == nextActiveSeatIndex(order, smallBlindSeatIndex, activeSeatSet)
      preflopOrder == buildActionOrder(order, bigBlindSeatIndex, activeSeatSet)
      flopOrder == buildActionOrder(order, buttonSeatIndex, activeSeatSet)
      dealt == [ seat \in activeSeatSet |->
                 LET k == IndexOf(sortedSeats, seat)
                 IN [ stack |-> activeSeats[seat],
                      folded |-> FALSE,
                      allIn |-> FALSE,
                      totalContribution |-> 0,
                      streetContribution |-> 0,
                      holeCards |-> << deck[2 * k + 1], deck[2 * k + 2] >>,
                      actedThisStreet |-> FALSE ] ]
      blindLevel == getBlindLevel(hand)
      players == postBlind(postBlind(dealt, smallBlindSeatIndex, blindLevel.smallBlind),
                           bigBlindSeatIndex, blindLevel.bigBlind)
  IN [ tableSeatOrder |-> order,
       buttonSeatIndex |-> buttonSeatIndex,
       state |-> [ handNumber |-> hand,
                   buttonSeatIndex |-> buttonSeatIndex,
                   street |-> "preflop",
                   board |-> << >>,
                   deck |-> SubSeq(deck, 2 * Len(sortedSeats) + 1, Len(deck)),
                   players |-> players,
                   orderByStreet |-> [ preflop |-> preflopOrder, flop |-> flopOrder,
                                       turn |-> flopOrder, river |-> flopOrder ],
                   actorPointer |-> 0,
                   currentBet |-> blindLevel.bigBlind,
                   lastRaiseSize |-> blindLevel.bigBlind,
                   actions |-> << >>,
                   streetActionCount |-> 0 ] ]

initializeHand(order0, button0, activeSeats, hand) ==
  dealHand(order0, button0, activeSeats, hand, HandDecks[hand])

\* the seat indexes of the players that have not folded
getLivePlayers(state) ==
  { s \in DOMAIN state.players : ~state.players[s].folded }

\* ... and are not all-in
getEligiblePlayers(state) ==
  { s \in getLivePlayers(state) : ~state.players[s].allIn }

\* a faulty variant of computeLegal whose minimum raise ignores the stack
computeLegalUncapped(state, actor) ==
  LET callAmount == Max(0, state.currentBet - actor.streetContribution)
      maxRaiseTo == actor.streetContribution + actor.stack
      blind == getBlindLevel(state.handNumber).bigBlind
  IN [ canFold |-> callAmount > 0,
       canCheck |-> callAmount = 0,
       callAmount |-> callAmount,
       minBet |-> Max(blind, state.lastRaiseSize),
       minRaiseTo |-> state.currentBet + Max(state.lastRaiseSize, 1),
       maxRaiseTo |-> maxRaiseTo,
       canAllIn |-> actor.stack > 0 ]

computeLegal(state, actor) ==
  LET callAmount == Max(0, state.currentBet - actor.streetContribution)
      maxRaiseTo == actor.streetContribution + actor.stack
      minRaiseTo == Min(maxRaiseTo, state.currentBet + Max(state.lastRaiseSize, 1))
      blind == getBlindLevel(state.handNumber).bigBlind
  IN [ canFold |-> callAmount > 0,
       canCheck |-> callAmount = 0,
       callAmount |-> callAmount,
       minBet |-> Max(blind, state.lastRaiseSize),
       minRaiseTo |-> minRaiseTo,
       maxRaiseTo |-> maxRaiseTo,
       canAllIn |-> actor.stack > 0 ]

\* the seat the pointer names (order[actorPointer], 0-based in the code)
ActorSeat(state) == state.orderByStreet[state.street][state.actorPointer + 1]

\* a faulty variant of normalizeActorPointer that leaves the pointer where it is
normalizeActorPointerStays(state) == state

\* a faulty variant of normalizeActorPointer that goes to the last seat able
\* to act, counted from the pointer, instead of the first
normalizeActorPointerLast(state) ==
  LET order == state.orderByStreet[state.street]
      able == { i \in 0..(Len(order) - 1) :
                  LET player == state.players[order[((state.actorPointer + i) % Len(order)) + 1]]
                  IN ~(player.folded \/ player.allIn) }
  IN IF able = {} THEN state
     ELSE LET last == CHOOSE i \in able : \A j \in able : i >= j
          IN [state EXCEPT !.actorPointer = (state.actorPointer + last) % Len(order)]

normalizeActorPointer(state) ==
  LET order == state.orderByStreet[state.street]
      able == { i \in 0..(Len(order) - 1) :
                  LET player == state.players[order[((state.actorPointer + i) % Len(order)) + 1]]
                  IN ~(player.folded \/ player.allIn) }
  IN IF able = {} THEN state
     ELSE LET first == CHOOSE i \in able : \A j \in able : i <= j
          IN [state EXCEPT !.actorPointer = (state.actorPointer + first) % Len(order)]

\* a faulty variant of canCloseStreet that closes the street as soon as the
\* contributions are matched, whoever has acted
canCloseStreetWhenMatched(state) ==
  LET active == getEligiblePlayers(state)
  IN \/ Cardinality(active) <= 1
     \/ \A s \in active :
          state.players[s].streetContribution = state.currentBet \/ state.players[s].allIn

canCloseStreet(state) ==
  LET active == getEligiblePlayers(state)
      everyoneActed == \A s \in active : state.players[s].actedThisStreet
      everyoneMatched == \A s \in active :
          state.players[s].streetContribution = state.currentBet \/ state.players[s].allIn
  IN IF Cardinality(active) <= 1 THEN TRUE
     ELSE everyoneActed /\ everyoneMatched

\* a faulty variant of advanceStreet that carries the bet level over to the
\* next street
advanceStreetKeepsBet(state) ==
  LET currentStreetIndex == IndexOf(STREETS, state.street)
  IN IF currentStreetIndex = Len(STREETS) - 1
     THEN [ state |-> state,
            ctx |-> [ actionCountInStreet |-> 0, handComplete |-> TRUE,
                      newStreetStarted |-> FALSE ] ]
     ELSE LET nextStreet == STREETS[currentStreetIndex + 2]
              dealtCards == IF nextStreet = "flop" THEN 3 ELSE 1
          IN [ state |->
                 [state EXCEPT
                    !.street = nextStreet,
                    !.actorPointer = 0,
                    !.streetActionCount = 0,
                    !.players = [ s \in DOMAIN state.players |->
                        [state.players[s] EXCEPT
                           !.streetContribution = 0,
                           !.actedThisStreet =
                              (state.players[s].folded \/ state.players[s].allIn)] ],
                    !.board = state.board \o SubSeq(state.deck, 1, dealtCards),
                    !.deck = SubSeq(state.deck, dealtCards + 1, Len(state.deck))],
               ctx |-> [ actionCountInStreet |-> 0, handComplete |-> FALSE,
                         newStreetStarted |-> TRUE ] ]

\* returns the hand state and the StepContext
advanceStreet(state) ==
  LET currentStreetIndex == IndexOf(STREETS, state.street)
  IN IF currentStreetIndex = Len(STREETS) - 1
     THEN [ state |-> state,
            ctx |-> [ actionCountInStreet |-> 0, handComplete |-> TRUE,
                      newStreetStarted |-> FALSE ] ]
     ELSE LET nextStreet == STREETS[currentStreetIndex + 2]
              dealtCards == IF nextStreet = "flop" THEN 3 ELSE 1
          IN [ state |->
                 [state EXCEPT
                    !.street = nextStreet,
                    !.actorPointer = 0,
                    !.currentBet = 0,
                    !.lastRaiseSize = getBlindLevel(state.handNumber).bigBlind,
                    !.streetActionCount = 0,
                    !.players = [ s \in DOMAIN state.players |->
                        [state.players[s] EXCEPT
                           !.streetContribution = 0,
                           !.actedThisStreet =
                              (state.players[s].folded \/ state.players[s].allIn)] ],
                    !.board = state.board \o SubSeq(state.deck, 1, dealtCards),
                    !.deck = SubSeq(state.deck, dealtCards + 1, Len(state.deck))],
               ctx |-> [ actionCountInStreet |-> 0, handComplete |-> FALSE,
                         newStreetStarted |-> TRUE ] ]

moveActor(state) ==
  [state EXCEPT !.actorPointer =
     (state.actorPointer + 1) % Len(state.orderByStreet[state.street])]

\* a faulty variant of runOutBoard that deals no card
runOutBoardNoDeal(state) == [state EXCEPT !.street = "river"]

runOutBoard(state) ==
  LET missing == Max(0, 5 - Len(state.board))
  IN [state EXCEPT !.board = state.board \o SubSeq(state.deck, 1, missing),
                   !.deck = SubSeq(state.deck, missing + 1, Len(state.deck)),
                   !.street = "river"]

\* ---------------------------------------------------------- settlement
\* Hand.winners (pokersolver) on the hands of the eligible seats: the seats
\* whose hand value is the greatest; hv gives each seat the value Hand.solve
\* returns for its two hole cards and the board
HandWinners(eligible, hv) ==
  { s \in eligible : \A o \in eligible : hv[s] >= hv[o] }

\* winnings.set(seatIndex, (winnings.get(seatIndex) ?? 0) + amount)
MapAdd(winnings, seatIndex, amount) ==
  [ s \in DOMAIN winnings \cup {seatIndex} |->
      IF s = seatIndex
      THEN (IF s \in DOMAIN winnings THEN winnings[s] ELSE 0) + amount
      ELSE winnings[s] ]

\* a faulty variant of MapGet that finds no winnings for any seat
MapGetNothing(winnings, seatIndex) == 0

MapGet(winnings, seatIndex) ==
  IF seatIndex \in DOMAIN winnings THEN winnings[seatIndex] ELSE 0

RECURSIVE payWinners(_, _, _, _)
\* the loop over orderedWinners of one tier
payWinners(orderedWinners, base, remainder, winnings) ==
  IF orderedWinners = << >> THEN winnings
  ELSE LET seatIndex == Head(orderedWinners)
           extra == IF remainder > 0 THEN 1 ELSE 0
       IN payWinners(Tail(orderedWinners), base, Max(0, remainder - 1),
                     MapAdd(winnings, seatIndex, base + extra))

\* a faulty variant of contributionLevels that keeps the greatest level alone
contributionLevelsTopOnly(state) ==
  LET all == { state.players[s].totalContribution : s \in DOMAIN state.players } \ {0}
  IN SortAscending({ l \in all : \A o \in all : o <= l })

\* [...new Set(totalContribution).filter(n > 0)].sort()
contributionLevels(state) ==
  SortAscending({ state.players[s].totalContribution : s \in DOMAIN state.players } \ {0})

\* a faulty variant of tierEligible that lets every seat that funded the tier
\* contest it, folded or not
tierEligibleFoldedToo(state, level) ==
  { s \in DOMAIN state.players : state.players[s].totalContribution >= level }

\* contenders.filter((player) => player.totalContribution >= level)
tierEligible(state, level) ==
  { s \in DOMAIN state.players :
      ~state.players[s].folded /\ state.players[s].totalContribution >= level }

\* one pass of the loop over contributionLevels: the tier at `level`;
\* paid: what this pass adds to winnings, seat by seat
potTier(state, order, hv, level, previous) ==
  LET participants == { s \in DOMAIN state.players :
                          state.players[s].totalContribution >= level }
      eligible == tierEligible(state, level)
      potAmount == Cardinality(participants) * (level - previous)
      skipped == potAmount <= 0 \/ eligible = {}
      winnerSeats == IF skipped THEN {} ELSE HandWinners(eligible, hv)
      orderedWinners ==
        orderSeatIndexesClockwiseFrom(order, state.buttonSeatIndex, winnerSeats)
  IN [ level |-> level,
       amount |-> potAmount,
       participants |-> participants,
       eligible |-> eligible,
       skipped |-> skipped,
       winnerSeats |-> winnerSeats,
       orderedWinners |-> orderedWinners,
       base |-> IF skipped THEN 0 ELSE potAmount \div Cardinality(winnerSeats),
       remainder |-> IF skipped THEN 0 ELSE potAmount % Cardinality(winnerSeats),
       paid |-> IF skipped THEN << >>
                ELSE payWinners(orderedWinners, potAmount \div Cardinality(winnerSeats),
                                potAmount % Cardinality(winnerSeats), << >>) ]

RECURSIVE potTiers(_, _, _, _, _)
\* the tiers of the loop, in order of level
potTiers(state, order, hv, levels, previous) ==
  IF levels = << >> THEN << >>
  ELSE << potTier(state, order, hv, Head(levels), previous) >>
       \o potTiers(state, order, hv, Tail(levels), Head(levels))

RECURSIVE accumulateWinnings(_, _)
\* the winnings Map after the loop
accumulateWinnings(tiers, winnings) ==
  IF tiers = << >> THEN winnings
  ELSE LET tier == Head(tiers)
       IN accumulateWinnings(Tail(tiers),
            payWinners(tier.orderedWinners, tier.base, tier.remainder, winnings))

\* returns the ResolvedHand and the tiers the loop went through
settleHand(state, order, hv) ==
  LET players == state.players
      contenders == { s \in DOMAIN players : ~players[s].folded }
      totalPot == SumOver([ s \in DOMAIN players |-> players[s].totalContribution ],
                          DOMAIN players)
      tiers == IF Cardinality(contenders) >= 2
               THEN potTiers(state, order, hv, contributionLevels(state), 0)
               ELSE << >>
      winnings ==
        IF Cardinality(contenders) = 1
        THEN [ s \in contenders |-> totalPot ]
        ELSE accumulateWinnings(tiers, << >>)
  IN [ hand |-> [ handNumber |-> state.handNumber,
                  board |-> state.board,
                  winners |-> winnings,
                  updatedStacks |->
                    [ s \in DOMAIN players |->
                        LET finalStack == players[s].stack + MapGet(winnings, s)
                        IN [ stack |-> finalStack, isEliminated |-> finalStack <= 0 ] ] ],
       tiers |-> tiers ]

\* ------------------------------------------------------- applyDecision
\* state.actions.push(record); the log is append-only and the engine never
\* reads it: the state keeps its most recent record
pushAction(state, seatIndex, action, amount) ==
  << [ seatIndex |-> seatIndex, action |-> action, amount |-> amount,
       handNumber |-> state.handNumber, street |-> state.street ] >>

\* a faulty variant of reopenAction that clears the flag of folded and all-in
\* seats too
reopenActionForAll(player) == [player EXCEPT !.actedThisStreet = FALSE]

\* what a bet or raise does to another seat: a seat that is neither folded nor
\* all-in has to act again
reopenAction(player) ==
  IF player.folded \/ player.allIn THEN player
  ELSE [player EXCEPT !.actedThisStreet = FALSE]

\* a faulty variant of allInAction that makes every other seat act again
allInActionReopens(state, actorSeatIndex) ==
  LET actor == state.players[actorSeatIndex]
      amount == actor.stack
  IN [state EXCEPT
        !.players = [ s \in DOMAIN state.players |->
           IF s = actorSeatIndex
           THEN [actor EXCEPT !.stack = 0,
                              !.totalContribution = actor.totalContribution + amount,
                              !.streetContribution = actor.streetContribution + amount,
                              !.allIn = TRUE,
                              !.actedThisStreet = TRUE]
           ELSE reopenAction(state.players[s]) ],
        !.currentBet = Max(state.currentBet, actor.streetContribution + amount),
        !.actions = pushAction(state, actorSeatIndex, "all_in", amount)]

\* the last branch of applyDecision, taken for all_in and for any action that
\* is none of fold, check, call, bet, raise
allInAction(state, actorSeatIndex) ==
  LET actor == state.players[actorSeatIndex]
      amount == actor.stack
  IN [state EXCEPT
        !.players[actorSeatIndex] =
           [actor EXCEPT !.stack = 0,
                         !.totalContribution = actor.totalContribution + amount,
                         !.streetContribution = actor.streetContribution + amount,
                         !.allIn = TRUE,
                         !.actedThisStreet = TRUE],
        !.currentBet = Max(state.currentBet, actor.streetContribution + amount),
        !.actions = pushAction(state, actorSeatIndex, "all_in", amount)]

\* the branch of applyDecision taken for decision.action, on the actor actorSeatIndex
applyAction(state, actorSeatIndex, decision) ==
  LET actor == state.players[actorSeatIndex]
      legal == computeLegal(state, actor)
      toCall == legal.callAmount
  IN CASE decision.action = "fold" ->
            [state EXCEPT
               !.players[actorSeatIndex].folded = TRUE,
               !.players[actorSeatIndex].actedThisStreet = TRUE,
               !.actions = pushAction(state, actorSeatIndex, "fold", 0)]
       [] decision.action = "check" ->
            [state EXCEPT
               !.players[actorSeatIndex].actedThisStreet = TRUE,
               !.actions = pushAction(state, actorSeatIndex, "check", 0)]
       [] decision.action = "call" ->
            LET amount == Min(actor.stack, toCall)
            IN [state EXCEPT
                  !.players[actorSeatIndex] =
                     [actor EXCEPT !.stack = actor.stack - amount,
                                   !.totalContribution = actor.totalContribution + amount,
                                   !.streetContribution = actor.streetContribution + amount,
                                   !.allIn = (actor.stack - amount <= 0),
                                   !.actedThisStreet = TRUE],
                  !.actions = pushAction(state, actorSeatIndex, "call", amount)]
       [] decision.action \in {"bet", "raise"} ->
            LET target == Min(decision.amount, actor.streetContribution + actor.stack)
                delta == Max(0, target - actor.streetContribution)
                nowAllIn == actor.stack - delta <= 0
                previousBet == state.currentBet
                newBet == Max(state.currentBet, target)
            IN [state EXCEPT
                  !.players = [ s \in DOMAIN state.players |->
                     IF s = actorSeatIndex
                     THEN [actor EXCEPT !.stack = actor.stack - delta,
                                        !.totalContribution = actor.totalContribution + delta,
                                        !.streetContribution = target,
                                        !.allIn = nowAllIn,
                                        !.actedThisStreet = TRUE]
                     ELSE reopenAction(state.players[s]) ],
                  !.currentBet = newBet,
                  !.lastRaiseSize = Max(1, newBet - previousBet),
                  !.actions = pushAction(state, actorSeatIndex, decision.action, target)]
       [] OTHER -> allInAction(state, actorSeatIndex)

\* what applyDecision does after the branch: count, fold-out, street closure
closeOrMove(state) ==
  LET counted == [state EXCEPT !.streetActionCount = Min(state.streetActionCount + 1, MaxCount)]
  IN IF Cardinality(getLivePlayers(counted)) <= 1
     THEN [ state |-> counted,
            ctx |-> [ actionCountInStreet |-> counted.streetActionCount,
                      handComplete |-> TRUE, newStreetStarted |-> FALSE ] ]
     ELSE IF canCloseStreet(counted) THEN advanceStreet(counted)
     ELSE [ state |-> moveActor(counted),
            ctx |-> [ actionCountInStreet |-> counted.streetActionCount,
                      handComplete |-> FALSE, newStreetStarted |-> FALSE ] ]

\* returns the hand state and the StepContext
applyDecision(state, decision) ==
  closeOrMove(applyAction(state, ActorSeat(state), decision))

\* ----------------------------------------------------------------- state
VARIABLES
  handState,        \* this.handState: << >> for null, << state >> otherwise
  buttonSeatIndex,  \* this.buttonSeatIndex
  tableSeatOrder,   \* this.tableSeatOrder
  seats,            \* the driver's seat snapshot: seat index -> stack, isEliminated
  handNumber,       \* the driver's hand number
  pc,               \* where the driver's loop stands
  returned,         \* what the engine returned to the last call
  settlement,       \* the hand state and the tiers of the last settleHand
  inFlightTicks,    \* inFlightTicks.has(matchId) of the match runner
  tickAt,           \* where each invocation of tickMatch stands
  tickTouched,      \* whether it has called the engine or the match store
  matchStatus       \* the stored status of the match

\* the state of the match runner's tick bookkeeping
runnerVars == << inFlightTicks, tickAt, tickTouched, matchStatus >>

vars == << handState, buttonSeatIndex, tableSeatOrder, seats, handNumber, pc,
           returned, settlement, inFlightTicks, tickAt, tickTouched,
           matchStatus >>

\* the invocations of tickMatch for the match
TickIds == 1..MaxTicks

\* no tick has been invoked yet and the match is running
InitRunner ==
  /\ inFlightTicks = FALSE
  /\ tickAt = [ t \in TickIds |-> "idle" ]
  /\ tickTouched = [ t \in TickIds |-> FALSE ]
  /\ matchStatus = "running"

\* the values Hand.solve can give a seat's cards
HandValues == {1, 2}

Alive(snapshot) ==
  { s \in DOMAIN snapshot : ~snapshot[s].isEliminated /\ snapshot[s].stack > 0 }

Stacks(snapshot, S) == SumOver([ s \in S |-> snapshot[s].stack ], S)

Init ==
  /\ handState = << >>
  /\ buttonSeatIndex = -1
  /\ tableSeatOrder = << >>
  /\ seats \in { f \in [ SeatIndexes -> { [ stack |-> n, isEliminated |-> (n = 0) ] :
                                            n \in 0..MaxChips } ] :
                  Stacks(f, SeatIndexes) <= MaxChips }
  /\ handNumber = 1
  /\ pc = "request"
  /\ returned = [ call |-> "none", type |-> "none" ]
  /\ settlement = << >>
  /\ InitRunner

\* the HandTickResult of a decision request
decisionRequest(state) ==
  LET actorSeatIndex == ActorSeat(state)
  IN [ handNumber |-> state.handNumber,
       street |-> state.street,
       actorSeatIndex |-> actorSeatIndex,
       legal |-> computeLegal(state, state.players[actorSeatIndex]),
       board |-> state.board,
       seats |-> [ s \in DOMAIN state.players |->
                    [ stack |-> state.players[s].stack,
                      folded |-> state.players[s].folded,
                      allIn |-> state.players[s].allIn,
                      contribution |-> state.players[s].totalContribution ] ],
       actionsThisHand |-> state.actions ]

\* nextDecision once this.handState is the state of the hand asked for:
\* engine = [ tableSeatOrder, buttonSeatIndex, state ]
continueHand(engine) ==
  /\ tableSeatOrder' = engine.tableSeatOrder
  /\ buttonSeatIndex' = engine.buttonSeatIndex
  /\ IF getEligiblePlayers(engine.state) = {}
     THEN \E hv \in [ DOMAIN engine.state.players -> HandValues ] :
            LET run == runOutBoard(engine.state)
                resolved == settleHand(run, engine.tableSeatOrder, hv)
            IN /\ handState' = << >>
               /\ settlement' = << [ state |-> run, tiers |-> resolved.tiers ] >>
               /\ returned' = [ call |-> "nextDecision", type |-> "hand_complete",
                                hand |-> resolved.hand ]
               /\ pc' = "absorb"
     ELSE LET normal == normalizeActorPointer(engine.state)
          IN /\ handState' = << normal >>
             /\ returned' = [ call |-> "nextDecision", type |-> "decision",
                              hand |-> decisionRequest(normal) ]
             /\ pc' = "decide"
             /\ UNCHANGED settlement

\* a faulty variant of uncontestedHand that awards the lone seat its own stack
uncontestedHandPaid(snapshot, hand) ==
  [ handNumber |-> hand,
    board |-> << >>,
    winners |-> [ s \in Alive(snapshot) |-> snapshot[s].stack ],
    updatedStacks |-> snapshot ]

\* the ResolvedHand nextDecision returns when at most one seat is alive
uncontestedHand(snapshot, hand) ==
  [ handNumber |-> hand,
    board |-> << >>,
    winners |-> [ s \in Alive(snapshot) |-> 0 ],
    updatedStacks |-> snapshot ]

\* engine.nextDecision(seats, handNumber)
nextDecision ==
  /\ IF Cardinality(Alive(seats)) <= 1
     THEN /\ returned' =
               [ call |-> "nextDecision", type |-> "hand_complete",
                 hand |-> uncontestedHand(seats, handNumber) ]
          /\ pc' = "absorb"
          /\ UNCHANGED << handState, buttonSeatIndex, tableSeatOrder, settlement >>
     ELSE IF handState = << >> \/ handState[1].handNumber # handNumber
          THEN continueHand(initializeHand(tableSeatOrder, buttonSeatIndex,
                                           [ s \in Alive(seats) |-> seats[s].stack ],
                                           handNumber))
          ELSE continueHand([ tableSeatOrder |-> tableSeatOrder,
                              buttonSeatIndex |-> buttonSeatIndex,
                              state |-> handState[1] ])
  /\ UNCHANGED << seats, handNumber >>
  /\ UNCHANGED runnerVars

\* the driver asks for the next step of the hand
NextDecision ==
  /\ pc = "request"
  /\ nextDecision

\* a caller asks again, while a decision request is pending or after
\* applyDecision reported handComplete, instead of answering or finalizing
NextDecisionAgain ==
  /\ pc \in {"decide", "finalize"}
  /\ nextDecision

\* engine.applyDecision(decision), called on a pending decision request
Apply(decision) ==
  /\ pc = "decide"
  /\ handState # << >>
  /\ LET r == applyDecision(handState[1], decision)
     IN /\ handState' = << r.state >>
        /\ returned' = [ call |-> "applyDecision", type |-> "applied", ctx |-> r.ctx,
                         actorSeatIndex |-> ActorSeat(handState[1]) ]
        /\ pc' = IF r.ctx.handComplete THEN "finalize" ELSE "request"
  /\ UNCHANGED << buttonSeatIndex, tableSeatOrder, seats, handNumber, settlement >>
  /\ UNCHANGED runnerVars

\* the decisions a caller can pass: the six actions, or any other string
Decisions ==
  [ action : {"bet", "raise"}, amount : 0..MaxChips ]
  \cup [ action : {"fold", "check", "call", "all_in", "other"}, amount : {0} ]

\* the decisions the legal-action set of a decision request permits
LegalDecisions(legal) ==
  { [ action |-> "fold", amount |-> 0 ] : x \in { z \in {1} : legal.canFold } }
  \cup { [ action |-> "check", amount |-> 0 ] : x \in { z \in {1} : legal.canCheck } }
  \cup { [ action |-> "call", amount |-> legal.callAmount ] :
           x \in { z \in {1} : legal.callAmount > 0 } }
  \cup { [ action |-> "all_in", amount |-> legal.maxRaiseTo ] :
           x \in { z \in {1} : legal.canAllIn } }
  \cup { [ action |-> "bet", amount |-> a ] :
           a \in { z \in legal.minBet..legal.maxRaiseTo : legal.canCheck } }
  \cup { [ action |-> "raise", amount |-> a ] :
           a \in { z \in legal.minRaiseTo..legal.maxRaiseTo : legal.callAmount > 0 } }

\* the driver applies a decision the request's legal-action set permits
ApplyLegalDecision ==
  /\ pc = "decide"
  /\ \E decision \in LegalDecisions(returned.hand.legal) : Apply(decision)

\* a caller applies any decision at all
ApplyAnyDecision == \E decision \in Decisions : Apply(decision)

\* engine.finalizeCurrentHand(), called when applyDecision reported handComplete
FinalizeCurrentHand ==
  /\ pc = "finalize"
  /\ handState # << >>
  /\ \E hv \in [ DOMAIN handState[1].players -> HandValues ] :
       LET resolved == settleHand(handState[1], tableSeatOrder, hv)
       IN /\ handState' = << >>
          /\ settlement' = << [ state |-> handState[1],
                                tiers |-> resolved.tiers ] >>
          /\ returned' = [ call |-> "finalizeCurrentHand", type |-> "hand_complete",
                           hand |-> resolved.hand ]
  /\ pc' = "absorb"
  /\ UNCHANGED << buttonSeatIndex, tableSeatOrder, seats, handNumber >>
  /\ UNCHANGED runnerVars

\* the driver takes the resolved hand's stacks and goes to the next hand
CompleteHand ==
  /\ pc = "absorb"
  /\ LET updated == returned.hand.updatedStacks
         next == [ s \in DOMAIN seats |->
                     IF s \in DOMAIN updated THEN updated[s] ELSE seats[s] ]
     IN /\ seats' = next
        /\ IF Cardinality(Alive(next)) <= 1 \/ handNumber >= MaxHands
           THEN pc' = "done" /\ UNCHANGED handNumber
           ELSE pc' = "request" /\ handNumber' = handNumber + 1
  /\ settlement' = << >>
  /\ UNCHANGED << handState, buttonSeatIndex, tableSeatOrder, returned >>
  /\ UNCHANGED runnerVars

Next == NextDecision \/ ApplyLegalDecision \/ FinalizeCurrentHand \/ CompleteHand

\* the driver of the verification scripts: every decision is a legal one
Spec == Init /\ [][Next]_vars

NextAny == NextDecision \/ ApplyAnyDecision \/ FinalizeCurrentHand \/ CompleteHand

\* a driver that applies whatever decision it is given
SpecAny == Init /\ [][NextAny]_vars

\* a faulty variant of applyDecisionCall that reports a completed hand when
\* there is no hand state
applyDecisionCallLenient(hs, decision) ==
  IF hs = << >>
  THEN [ thrown |-> FALSE, handState |-> hs,
         ctx |-> [ actionCountInStreet |-> 0, handComplete |-> TRUE,
                   newStreetStarted |-> FALSE ] ]
  ELSE LET r == applyDecision(hs[1], decision)
       IN [ thrown |-> FALSE, handState |-> << r.state >>, ctx |-> r.ctx ]

\* applyDecision as a call on the engine, hs being this.handState: it throws
\* "Hand state is not initialized." when there is none
applyDecisionCall(hs, decision) ==
  IF hs = << >>
  THEN [ thrown |-> TRUE, handState |-> hs,
         ctx |-> [ actionCountInStreet |-> 0, handComplete |-> FALSE,
                   newStreetStarted |-> FALSE ] ]
  ELSE LET r == applyDecision(hs[1], decision)
       IN [ thrown |-> FALSE, handState |-> << r.state >>, ctx |-> r.ctx ]

\* a caller applies a decision between two hands, when no hand is in progress
ApplyWithoutHand ==
  /\ pc = "request"
  /\ handState = << >>
  /\ \E decision \in Decisions :
       LET r == applyDecisionCall(handState, decision)
       IN /\ handState' = r.handState
          /\ returned' = IF r.thrown
                         THEN [ call |-> "applyDecision", type |-> "error" ]
                         ELSE [ call |-> "applyDecision", type |-> "applied",
                                ctx |-> r.ctx ]
  /\ UNCHANGED << buttonSeatIndex, tableSeatOrder, seats, handNumber, pc, settlement >>
  /\ UNCHANGED runnerVars

\* a caller finalizes between two hands: finalizeCurrentHand throws "No hand
\* state to finalize."
FinalizeWithoutHand ==
  /\ pc = "request"
  /\ handState = << >>
  /\ returned' = [ call |-> "finalizeCurrentHand", type |-> "error" ]
  /\ UNCHANGED << handState, buttonSeatIndex, tableSeatOrder, seats, handNumber,
                  pc, settlement >>
  /\ UNCHANGED runnerVars

NextFree ==
  \/ NextDecision
  \/ NextDecisionAgain
  \/ ApplyLegalDecision
  \/ ApplyWithoutHand
  \/ FinalizeCurrentHand
  \/ FinalizeWithoutHand
  \/ CompleteHand

\* a caller that may call nextDecision at any point of a hand
SpecFree == Init /\ [][NextFree]_vars

\* --------------------------------------------- the match runner's tick
\* the stored seats after syncStacksFromSnapshot(matchId, engine.getSnapshot()):
\* every seat of the snapshot gets the hand's stack, and is flagged eliminated
\* when that stack is 0; without a hand state nothing is written
syncStacksFromSnapshot ==
  IF handState = << >> THEN seats
  ELSE [ s \in DOMAIN seats |->
           IF s \in DOMAIN handState[1].players
           THEN [ stack |-> handState[1].players[s].stack,
                  isEliminated |-> handState[1].players[s].stack <= 0 ]
           ELSE seats[s] ]

\* tickMatch writes the snapshot back after nextDecision returned a decision
\* request and after applyDecision
SyncStacks ==
  /\ pc \in {"decide", "request", "finalize"}
  /\ seats # syncStacksFromSnapshot
  /\ seats' = syncStacksFromSnapshot
  /\ UNCHANGED << handState, buttonSeatIndex, tableSeatOrder, handNumber, pc,
                  returned, settlement >>
  /\ UNCHANGED runnerVars

\* a tick starts: the engine is asked with the stored seats
TickNextDecision ==
  /\ seats = syncStacksFromSnapshot
  /\ NextDecision

\* the tick applies the resolved decision of the actor
TickApplyDecision ==
  /\ seats = syncStacksFromSnapshot
  /\ ApplyLegalDecision

\* the tick finalizes the hand when applyDecision reported handComplete
TickFinalizeHand ==
  /\ seats = syncStacksFromSnapshot
  /\ FinalizeCurrentHand

\* the tick stores the resolved hand's stacks; after a hand_complete step of
\* nextDecision the match is finalized, after finalizeCurrentHand the next hand
\* follows unless the hand cap is passed or at most one seat remains
TickStoreResolvedHand ==
  /\ pc = "absorb"
  /\ LET updated == returned.hand.updatedStacks
         next == [ s \in DOMAIN seats |->
                     IF s \in DOMAIN updated THEN updated[s] ELSE seats[s] ]
         remainingSeats == { s \in DOMAIN next : ~next[s].isEliminated }
     IN /\ seats' = next
        /\ IF \/ returned.call = "nextDecision"
              \/ handNumber + 1 > MaxHands
              \/ Cardinality(remainingSeats) <= 1
           THEN pc' = "done" /\ UNCHANGED handNumber
           ELSE pc' = "request" /\ handNumber' = handNumber + 1
  /\ settlement' = << >>
  /\ UNCHANGED << handState, buttonSeatIndex, tableSeatOrder, returned >>
  /\ UNCHANGED runnerVars

NextTick ==
  \/ TickNextDecision
  \/ SyncStacks
  \/ TickApplyDecision
  \/ TickFinalizeHand
  \/ TickStoreResolvedHand

\* the match runner: one engine step per tick, stacks written back in between
SpecTick == Init /\ [][NextTick]_vars

\* ------------------------------------------ the agent's decision resolution
\* what one attempt of the agent can give: a JSON decision (with any action
\* string and amount), a provider timeout, or another provider error
AgentOutputs ==
  Decisions \cup [ action : {"provider_timeout", "provider_error"}, amount : {0} ]

\* validateDecisionPayload(candidate, legal, actorStack): valid is FALSE where
\* the code throws
validateDecisionPayload(candidate, legal, actorStack) ==
  CASE candidate.action = "fold" ->
         [ valid |-> legal.canFold, decision |-> [ action |-> "fold", amount |-> 0 ] ]
    [] candidate.action = "check" ->
         [ valid |-> legal.canCheck, decision |-> [ action |-> "check", amount |-> 0 ] ]
    [] candidate.action = "call" ->
         [ valid |-> legal.callAmount > 0,
           decision |-> [ action |-> "call", amount |-> legal.callAmount ] ]
    [] candidate.action = "all_in" ->
         [ valid |-> legal.canAllIn /\ actorStack > 0,
           decision |-> [ action |-> "all_in", amount |-> actorStack ] ]
    [] candidate.action = "bet" ->
         [ valid |-> /\ legal.canCheck
                     /\ candidate.amount >= legal.minBet
                     /\ candidate.amount <= legal.maxRaiseTo,
           decision |-> [ action |-> "bet", amount |-> candidate.amount ] ]
    [] candidate.action = "raise" ->
         [ valid |-> /\ legal.callAmount > 0
                     /\ candidate.amount >= legal.minRaiseTo
                     /\ candidate.amount <= legal.maxRaiseTo,
           decision |-> [ action |-> "raise", amount |-> candidate.amount ] ]
    [] OTHER ->
         [ valid |-> FALSE, decision |-> [ action |-> "fold", amount |-> 0 ] ]

fallbackDecision(legal) ==
  IF legal.canFold THEN [ action |-> "fold", amount |-> 0 ]
  ELSE IF legal.canCheck THEN [ action |-> "check", amount |-> 0 ]
  ELSE IF legal.callAmount > 0 THEN [ action |-> "call", amount |-> legal.callAmount ]
  ELSE [ action |-> "all_in", amount |-> legal.maxRaiseTo ]

\* how one pass of the loop of resolveAgentDecision ends: with a validated
\* decision, with the fallback at once (a provider timeout), or going on to
\* the next attempt
attemptOutcome(output, legal, actorStack) ==
  IF output.action = "provider_timeout" THEN "transport"
  ELSE IF output.action = "provider_error" THEN "continue"
  ELSE IF validateDecisionPayload(output, legal, actorStack).valid THEN "valid"
  ELSE "continue"

\* resolveAgentDecision, outputs being what the agent gives at the first and
\* at the second attempt
resolveAgentDecision(outputs, legal, actorStack) ==
  LET first == attemptOutcome(outputs[1], legal, actorStack)
      second == attemptOutcome(outputs[2], legal, actorStack)
  IN IF first = "valid"
     THEN [ decision |-> validateDecisionPayload(outputs[1], legal, actorStack).decision,
            reason |-> "none", retried |-> FALSE ]
     ELSE IF first = "transport"
     THEN [ decision |-> fallbackDecision(legal),
            reason |-> "transport_exhausted", retried |-> FALSE ]
     ELSE IF second = "valid"
     THEN [ decision |-> validateDecisionPayload(outputs[2], legal, actorStack).decision,
            reason |-> "none", retried |-> TRUE ]
     ELSE IF second = "transport"
     THEN [ decision |-> fallbackDecision(legal),
            reason |-> "transport_exhausted", retried |-> TRUE ]
     ELSE [ decision |-> fallbackDecision(legal),
            reason |-> "invalid_output_exhausted", retried |-> TRUE ]

\* the tick resolves the actor's decision with the agent and applies it
AgentDecision ==
  /\ pc = "decide"
  /\ handState # << >>
  /\ LET legal == returned.hand.legal
         actorStack == returned.hand.seats[returned.hand.actorSeatIndex].stack
         resolutions == { resolveAgentDecision(<< a, b >>, legal, actorStack) :
                            a \in AgentOutputs, b \in AgentOutputs }
     IN \E resolution \in resolutions :
          LET r == applyDecision(handState[1], resolution.decision)
          IN /\ handState' = << r.state >>
             /\ returned' = [ call |-> "applyDecision", type |-> "applied",
                              ctx |-> r.ctx,
                              actorSeatIndex |-> ActorSeat(handState[1]),
                              legal |-> legal,
                              resolution |-> resolution ]
             /\ pc' = IF r.ctx.handComplete THEN "finalize" ELSE "request"
  /\ UNCHANGED << buttonSeatIndex, tableSeatOrder, seats, handNumber, settlement >>
  /\ UNCHANGED runnerVars

NextAgent == NextDecision \/ AgentDecision \/ FinalizeCurrentHand \/ CompleteHand

\* a driver whose decisions come from resolveAgentDecision
SpecAgent == Init /\ [][NextAgent]_vars

\* ------------------------------------- the match runner's in-flight marker
engineVars == << handState, buttonSeatIndex, tableSeatOrder, seats, handNumber, pc,
                 returned, settlement >>

\* the locations of a tick that holds the marker: awaiting the stored match,
\* awaiting the agent's decision, awaiting the writes that follow
\* applyDecision, awaiting the writes of a hand nextDecision returned complete
InFlightAt == {"load", "decide", "store", "resolve"}

\* a faulty variant of tickEntry that never returns early
tickEntryUnguarded(marker) == [ returns |-> FALSE, marker |-> TRUE ]

\* the head of tickMatch: return when the match is marked in flight, mark it
\* otherwise
tickEntry(marker) == [ returns |-> marker, marker |-> TRUE ]

\* tickMatch(matchId) is invoked, by the interval timer, startMatchRunner or
\* stepMatchRunner
TickInvoke(t) ==
  /\ tickAt[t] \notin InFlightAt
  /\ LET entry == tickEntry(inFlightTicks)
     IN IF entry.returns
        THEN /\ tickAt' = [ tickAt EXCEPT ![t] = "skipped" ]
             /\ UNCHANGED inFlightTicks
        ELSE /\ tickAt' = [ tickAt EXCEPT ![t] = "load" ]
             /\ inFlightTicks' = entry.marker
  /\ tickTouched' = [ tickTouched EXCEPT ![t] = FALSE ]
  /\ UNCHANGED << matchStatus, engineVars >>

\* the stored match arrives: a match that is not running ends the tick through
\* clearRunner and the finally block; otherwise the engine is asked for the next
\* step, which is a decision request or a completed hand
TickLoad(t) ==
  /\ tickAt[t] = "load"
  /\ tickTouched' = [ tickTouched EXCEPT ![t] = TRUE ]
  /\ IF matchStatus # "running"
     THEN /\ tickAt' = [ tickAt EXCEPT ![t] = "ended" ]
          /\ inFlightTicks' = FALSE
     ELSE /\ \E at \in {"decide", "resolve"} : tickAt' = [ tickAt EXCEPT ![t] = at ]
          /\ UNCHANGED inFlightTicks
  /\ UNCHANGED << matchStatus, engineVars >>

\* the agent's decision arrives and is applied
TickDecide(t) ==
  /\ tickAt[t] = "decide"
  /\ tickAt' = [ tickAt EXCEPT ![t] = "store" ]
  /\ UNCHANGED << inFlightTicks, tickTouched, matchStatus, engineVars >>

\* the last writes of the tick are done: finalizeMatch, when the tick calls
\* it, stores the completed status and ends in clearRunner; tickMatch then
\* returns through the finally block, in promise jobs of the same turn
TickStore(t) ==
  /\ tickAt[t] = "store"
  /\ tickAt' = [ tickAt EXCEPT ![t] = "ended" ]
  /\ inFlightTicks' = FALSE
  /\ \E finalizeMatch \in BOOLEAN :
       matchStatus' = IF finalizeMatch THEN "completed" ELSE matchStatus
  /\ UNCHANGED << tickTouched, engineVars >>

\* the hand nextDecision returned complete is stored and the match finalized:
\* finalizeMatch ends in clearRunner and the tick returns through the finally
\* block
TickResolve(t) ==
  /\ tickAt[t] = "resolve"
  /\ tickAt' = [ tickAt EXCEPT ![t] = "ended" ]
  /\ inFlightTicks' = FALSE
  /\ matchStatus' = "completed"
  /\ UNCHANGED << tickTouched, engineVars >>

\* an awaited call of the tick rejects: the finally block releases the marker
TickThrow(t) ==
  /\ tickAt[t] \in InFlightAt
  /\ tickAt' = [ tickAt EXCEPT ![t] = "failed" ]
  /\ tickTouched' = [ tickTouched EXCEPT ![t] = TRUE ]
  /\ inFlightTicks' = FALSE
  /\ UNCHANGED << matchStatus, engineVars >>

\* pauseMatchRunner stores the paused status
PauseMatch ==
  /\ matchStatus = "running"
  /\ matchStatus' = "paused"
  /\ UNCHANGED << inFlightTicks, tickAt, tickTouched, engineVars >>

\* startMatchRunner and stepMatchRunner store the running status
StartMatch ==
  /\ matchStatus = "paused"
  /\ matchStatus' = "running"
  /\ UNCHANGED << inFlightTicks, tickAt, tickTouched, engineVars >>

NextRunner ==
  \/ \E t \in TickIds : TickInvoke(t)
  \/ \E t \in TickIds : TickLoad(t)
  \/ \E t \in TickIds : TickDecide(t)
  \/ \E t \in TickIds : TickStore(t)
  \/ \E t \in TickIds : TickResolve(t)
  \/ \E t \in TickIds : TickThrow(t)
  \/ PauseMatch
  \/ StartMatch

\* a match of four seats with one chip each, before its first hand
InitMatch ==
  /\ Init
  /\ \A s \in SeatIndexes : seats[s].stack = 1

\* the invocations of tickMatch for one match, interleaved at their awaits
SpecRunner == InitMatch /\ [][NextRunner]_vars

\* ------------------------------------------------------------- claims
\* the hand state the engine holds, or the one its last settlement ran on
HandStates ==
  { handState[i] : i \in DOMAIN handState }
  \cup { settlement[i].state : i \in DOMAIN settlement }

\* the chips of a hand state: stacks and contributions of all its seats
ChipsInHand(state) ==
  SumOver([ s \in DOMAIN state.players |->
              state.players[s].stack + state.players[s].totalContribution ],
          DOMAIN state.players)

C8_InHandConservation ==
  \A state \in HandStates :
    ChipsInHand(state) = Stacks(seats, DOMAIN state.players)

\* an action the legal set did not offer was applied, and chips are in the pot
C8_Witness ==
  /\ handState # << >>
  /\ returned.call = "applyDecision"
  /\ handState[1].actions # << >>
  /\ handState[1].actions[1].action = "bet"
  /\ handState[1].actions[1].amount = 1
  /\ \E s \in DOMAIN handState[1].players :
       handState[1].players[s].totalContribution >= 3

\* the settlements the engine has just made: the hand state settled, its tiers
\* and the winners returned
Settlements ==
  { [ state |-> settlement[i].state, tiers |-> settlement[i].tiers,
      winners |-> returned.hand.winners ] : i \in DOMAIN settlement }

Contenders(state) == { s \in DOMAIN state.players : ~state.players[s].folded }

PotOf(state) ==
  SumOver([ s \in DOMAIN state.players |-> state.players[s].totalContribution ],
          DOMAIN state.players)

TierAmounts(tiers) == SumOver([ i \in DOMAIN tiers |-> tiers[i].amount ], DOMAIN tiers)

\* C3: in every settlement with at least one non-folded seat, the amounts won
\* by the winners sum to the amounts of the pot tiers, which is the whole pot:
\* the sum of the total contributions of the seats of the hand.
C3_PotWinnerEquality ==
  \A r \in Settlements :
    Contenders(r.state) # {} =>
      /\ SumOver(r.winners, DOMAIN r.winners) = PotOf(r.state)
      /\ Cardinality(Contenders(r.state)) >= 2 =>
            SumOver(r.winners, DOMAIN r.winners) = TierAmounts(r.tiers)

\* C4: in a settlement with two or more contenders, every seat paid chips from
\* a tier has not folded and has contributed at least the tier's level, and a
\* folded seat wins nothing.
C4_Eligibility ==
  \A r \in Settlements :
    Cardinality(Contenders(r.state)) >= 2 =>
      /\ \A i \in DOMAIN r.tiers : \A s \in DOMAIN r.tiers[i].paid :
            r.tiers[i].paid[s] > 0 =>
              /\ ~r.state.players[s].folded
              /\ r.state.players[s].totalContribution >= r.tiers[i].level
      /\ \A s \in DOMAIN r.winners :
            r.winners[s] > 0 => ~r.state.players[s].folded

\* a tier paid out that a folded seat helped to fund
C4_Witness ==
  \E r \in Settlements :
    /\ Cardinality(Contenders(r.state)) >= 2
    /\ \E i \in DOMAIN r.tiers :
         /\ ~r.tiers[i].skipped
         /\ \E s \in r.tiers[i].participants : r.state.players[s].folded

\* the distinct strictly positive total contributions of a hand state
PositiveLevels(state) ==
  { state.players[s].totalContribution : s \in DOMAIN state.players } \ {0}

\* the level before L among the levels, 0 for the first
PreviousLevel(levels, L) ==
  IF \E l \in levels : l < L
  THEN CHOOSE p \in levels : p < L /\ \A l \in levels : l < L => l <= p
  ELSE 0

\* C5: in a settlement with two or more contenders there is one tier per
\* distinct strictly positive total contribution L, in ascending order; with P
\* the level before (0 for the first), its amount is (L - P) times the number
\* of seats, folded or not, that contributed at least L, and the seats that
\* contest it are the non-folded ones among them.
C5_SidePotTiers ==
  \A r \in Settlements :
    Cardinality(Contenders(r.state)) >= 2 =>
      LET levels == PositiveLevels(r.state)
          funded(L) == { s \in DOMAIN r.state.players :
                           r.state.players[s].totalContribution >= L }
      IN /\ Len(r.tiers) = Cardinality(levels)
         /\ { r.tiers[i].level : i \in DOMAIN r.tiers } = levels
         /\ \A i, j \in DOMAIN r.tiers : i < j => r.tiers[i].level < r.tiers[j].level
         /\ \A i \in DOMAIN r.tiers :
              LET L == r.tiers[i].level
              IN /\ r.tiers[i].amount =
                      Cardinality(funded(L)) * (L - PreviousLevel(levels, L))
                 /\ r.tiers[i].eligible = funded(L) \cap Contenders(r.state)
                 /\ r.tiers[i].winnerSeats \subseteq r.tiers[i].eligible
                 /\ DOMAIN r.tiers[i].paid \subseteq r.tiers[i].eligible

\* a settlement with a side pot, and a tier funded by a folded seat too
C5_Witness ==
  \E r \in Settlements :
    /\ Cardinality(Contenders(r.state)) >= 2
    /\ Len(r.tiers) >= 2
    /\ \E i \in DOMAIN r.tiers :
         r.tiers[i].participants # r.tiers[i].eligible

\* the number of seats from the seat after the button to seat s, walking the
\* table seat order clockwise (the button itself comes last)
ClockwiseDistance(order, button, s) ==
  LET n == Len(order)
      from == IF button \in Range(order) THEN IndexOf(order, button) ELSE -1
      d == (IndexOf(order, s) - from + n) % n
  IN IF d = 0 THEN n ELSE d

\* C6: when a tier of amount A is won by k tied seats, each gets A div k, and
\* the A mod k odd chips go one each to the first A mod k winners clockwise
\* from the seat after the button in the table seat order.
C6_OddChips ==
  \A r \in Settlements : \A i \in DOMAIN r.tiers :
    ~r.tiers[i].skipped =>
      LET tier == r.tiers[i]
          k == Cardinality(tier.winnerSeats)
          before(w) == { v \in tier.winnerSeats :
                          ClockwiseDistance(tableSeatOrder, r.state.buttonSeatIndex, v)
                          < ClockwiseDistance(tableSeatOrder, r.state.buttonSeatIndex, w) }
      IN /\ k > 0
         /\ DOMAIN tier.paid = tier.winnerSeats
         /\ \A w \in tier.winnerSeats :
              tier.paid[w] = (tier.amount \div k)
                             + (IF Cardinality(before(w)) < tier.amount % k THEN 1 ELSE 0)

\* a tied tier with an odd chip that goes to a winner who is not the one with
\* the lowest seat index
C6_Witness ==
  \E r \in Settlements : \E i \in DOMAIN r.tiers :
    LET tier == r.tiers[i]
    IN /\ ~tier.skipped
       /\ Cardinality(tier.winnerSeats) >= 2
       /\ tier.amount % Cardinality(tier.winnerSeats) > 0
       /\ \E w, v \in tier.winnerSeats : w > v /\ tier.paid[w] > tier.paid[v]

\* what a decision leaves alone in the seats other than the actor
SameChips(before, after, s) ==
  /\ after.players[s].stack = before.players[s].stack
  /\ after.players[s].totalContribution = before.players[s].totalContribution
  /\ after.players[s].folded = before.players[s].folded
  /\ after.players[s].allIn = before.players[s].allIn

\* C9: every decision request names a seat of the hand that is neither folded
\* nor all-in, and the applyDecision that follows applies the decision to that
\* seat: the action is logged for it and no other seat's chips or flags move.
C9_ActorCanAct ==
  [][ /\ pc' = "decide" =>
           LET actor == returned'.hand.actorSeatIndex
           IN /\ actor \in DOMAIN handState'[1].players
              /\ ~handState'[1].players[actor].folded
              /\ ~handState'[1].players[actor].allIn
      /\ (pc = "decide" /\ pc' # "decide") =>
           LET actor == returned.hand.actorSeatIndex
           IN /\ returned'.actorSeatIndex = actor
              /\ handState'[1].actions[1].seatIndex = actor
              /\ \A s \in DOMAIN handState[1].players \ {actor} :
                    SameChips(handState[1], handState'[1], s) ]_vars

\* a decision is requested after the flop, with a folded seat and an all-in
\* seat in the hand
C9_Witness ==
  /\ pc = "decide"
  /\ handState[1].street # "preflop"
  /\ returned.hand.actionsThisHand # << >>
  /\ \E s, t \in DOMAIN handState[1].players :
       handState[1].players[s].folded /\ handState[1].players[t].allIn

BettingState(state) == [state EXCEPT !.actions = << >>, !.streetActionCount = 0]

\* C2: every hand terminates: no cycle of legal decisions keeps a street open.
\* In particular no two legal decisions in a row, each answering the decision
\* request the engine makes, bring a hand in progress back to the betting
\* state it was in: the engine being deterministic, they could be repeated
\* for ever.
C2_NoDecisionCycle ==
  pc = "decide" =>
    \A d1 \in LegalDecisions(returned.hand.legal) :
      LET r1 == applyDecision(handState[1], d1)
          s1 == normalizeActorPointer(r1.state)
      IN (~r1.ctx.handComplete /\ getEligiblePlayers(r1.state) # {}) =>
           \A d2 \in LegalDecisions(computeLegal(s1, s1.players[ActorSeat(s1)])) :
             LET r2 == applyDecision(s1, d2)
             IN \/ r2.ctx.handComplete
                \/ BettingState(normalizeActorPointer(r2.state))
                     # BettingState(handState[1])

\* the seats of a hand state that can still act: not folded, not all-in
AbleSeats(state) ==
  { s \in DOMAIN state.players :
      ~state.players[s].folded /\ ~state.players[s].allIn }

\* the number of seats of the hand met before seat s when walking clockwise
\* from the seat after the button
ClockwiseRank(state, s) ==
  Cardinality({ v \in DOMAIN state.players :
                  ClockwiseDistance(tableSeatOrder, state.buttonSeatIndex, v)
                  < ClockwiseDistance(tableSeatOrder, state.buttonSeatIndex, s) })

\* no decision has been applied on the street the hand state is on
StreetJustOpened(state) ==
  state.actions = << >> \/ state.actions[1].street # state.street

NextAscending(S, from) ==
  IF \E s \in S : s > from
  THEN CHOOSE s \in S : s > from /\ \A v \in S : v > from => s <= v
  ELSE CHOOSE s \in S : \A v \in S : s <= v

\* C12: when nextDecision starts a hand with three seats or more, the table
\* seat order is every seat index seen so far in ascending order, the button
\* moves to the seat that follows the previous button in that order, wrapping,
\* whether or not that seat takes part in the hand, and the small and the big
\* blind are posted by the first and the second seat of the hand clockwise of
\* the button, and by no other seat.
C12_DeadButton ==
  [][ ( /\ pc = "request"
        /\ pc' = "decide"
        /\ (handState = << >> \/ handState[1].handNumber # handNumber)
        /\ Cardinality(Alive(seats)) >= 3 ) =>
      LET state == handState'[1]
          seen == Range(tableSeatOrder) \cup Alive(seats)
          blinds == getBlindLevel(handNumber)
          rank(s) ==
            Cardinality({ v \in DOMAIN state.players :
                            ClockwiseDistance(tableSeatOrder', buttonSeatIndex', v)
                            < ClockwiseDistance(tableSeatOrder', buttonSeatIndex', s) })
      IN /\ DOMAIN state.players = Alive(seats)
         /\ Range(tableSeatOrder') = seen
         /\ Len(tableSeatOrder') = Cardinality(seen)
         /\ \A i, j \in DOMAIN tableSeatOrder' :
               i < j => tableSeatOrder'[i] < tableSeatOrder'[j]
         /\ buttonSeatIndex' = NextAscending(seen, buttonSeatIndex)
         /\ state.buttonSeatIndex = buttonSeatIndex'
         /\ \A s \in DOMAIN state.players :
               state.players[s].totalContribution =
                 IF rank(s) = 0 THEN Min(seats[s].stack, blinds.smallBlind)
                 ELSE IF rank(s) = 1 THEN Min(seats[s].stack, blinds.bigBlind)
                 ELSE 0 ]_vars

\* the second hand has three seats, and its button is on the seat of a player
\* eliminated in the first hand
C12_Witness ==
  /\ pc = "decide"
  /\ handState[1].handNumber = 2
  /\ handState[1].actions = << >>
  /\ Cardinality(DOMAIN handState[1].players) >= 3
  /\ handState[1].buttonSeatIndex \notin DOMAIN handState[1].players
  /\ handState[1].buttonSeatIndex \in Range(tableSeatOrder)

\* C13: once applyDecision has reported handComplete (a fold left at most one
\* non-folded seat, or betting on the river closed), a nextDecision call for
\* that hand returns hand_complete with the resolved hand, and no decision
\* request.
C13_HandCompleteSignal ==
  [][ (pc = "finalize" /\ returned'.call = "nextDecision") =>
        /\ returned'.type = "hand_complete"
        /\ pc' = "absorb" ]_vars

\* C14: when nextDecision is called for a hand in progress in which two or
\* more seats have not folded and every one of them is all-in, it deals the
\* board out to five cards from the top of the deck and returns hand_complete
\* with the settlement (the whole pot paid to non-folded seats), no decision
\* request, and no hand state is left.
C14_FastForward ==
  [][ ( /\ pc = "request"
        /\ handState # << >>
        /\ handState[1].handNumber = handNumber
        /\ AbleSeats(handState[1]) = {}
        /\ Cardinality(Contenders(handState[1])) >= 2 ) =>
      LET state == handState[1]
          missing == 5 - Len(state.board)
      IN /\ returned'.call = "nextDecision"
         /\ returned'.type = "hand_complete"
         /\ pc' = "absorb"
         /\ handState' = << >>
         /\ Len(returned'.hand.board) = 5
         /\ returned'.hand.board = state.board \o SubSeq(state.deck, 1, missing)
         /\ DOMAIN returned'.hand.winners \subseteq Contenders(state)
         /\ SumOver(returned'.hand.winners, DOMAIN returned'.hand.winners) = PotOf(state)
         /\ \A s \in DOMAIN state.players :
               returned'.hand.updatedStacks[s].stack =
                 state.players[s].stack
                 + (IF s \in DOMAIN returned'.hand.winners
                    THEN returned'.hand.winners[s] ELSE 0) ]_vars

\* nextDecision has run the board out from a street before the river, after a
\* decision of the hand left only all-in seats contesting the pot
C14_Witness ==
  /\ pc = "absorb"
  /\ returned.call = "nextDecision"
  /\ settlement # << >>
  /\ settlement[1].state.actions # << >>
  /\ settlement[1].state.actions[1].street \in {"preflop", "flop"}
  /\ Len(returned.hand.board) = 5
  /\ Cardinality(Contenders(settlement[1].state)) >= 2

\* C15: when a single non-folded seat can still act, every other non-folded
\* seat being all-in, and that seat has nothing to call, the engine asks it no
\* decision: no decision request is pending in such a hand state.
C15_SingleSeatRunOut ==
  pc = "decide" =>
    ~( /\ Cardinality(AbleSeats(handState[1])) = 1
       /\ Cardinality(Contenders(handState[1])) >= 2
       /\ returned.hand.legal.callAmount = 0 )

\* C16: applyDecision applies only what the legal-action set of the pending
\* decision request permits: after every applyDecision call the hand state is
\* either the outcome of a permitted decision or the hand state as it was.
C16_LegalityValidated ==
  [][ (pc = "decide" /\ returned'.call = "applyDecision") =>
        \/ handState' = handState
        \/ \E d \in LegalDecisions(returned.hand.legal) :
              handState'[1] = applyDecision(handState[1], d).state ]_vars

\* the closed action enum
ActionEnum == {"fold", "check", "call", "bet", "raise", "all_in"}

\* C17: applyDecision rejects a decision whose action is outside the action
\* enum: at every pending decision request, applying such a decision moves no
\* chips and changes no flag, the hand state stays as it is.
C17_UnknownActionRejected ==
  pc = "decide" =>
    \A d \in Decisions :
      d.action \notin ActionEnum =>
        applyDecision(handState[1], d).state = handState[1]

\* C18: at every decision request, with c the actor's street contribution and
\* s its stack: callAmount = max(0, currentBet - c); canCheck iff callAmount is
\* 0; canFold iff callAmount > 0; maxRaiseTo = c + s; minRaiseTo =
\* min(maxRaiseTo, currentBet + max(lastRaiseSize, 1)); minBet = max(big blind,
\* lastRaiseSize); canAllIn iff s > 0.  So a bet and a raise are never both
\* permitted, and minRaiseTo <= maxRaiseTo.
C18_LegalActionSet ==
  pc = "decide" =>
    LET state == handState[1]
        legal == returned.hand.legal
        actor == state.players[returned.hand.actorSeatIndex]
        c == actor.streetContribution
        s == actor.stack
        owed == IF state.currentBet > c THEN state.currentBet - c ELSE 0
        step == IF state.lastRaiseSize > 1 THEN state.lastRaiseSize ELSE 1
        bigBlind == blindLevels[IF state.handNumber > Len(blindLevels) * handsPerLevel
                                THEN Len(blindLevels)
                                ELSE ((state.handNumber - 1) \div handsPerLevel) + 1].bigBlind
    IN /\ legal.callAmount = owed
       /\ legal.canCheck = (owed = 0)
       /\ legal.canFold = (owed > 0)
       /\ legal.maxRaiseTo = c + s
       /\ legal.minRaiseTo = (IF c + s < state.currentBet + step
                              THEN c + s ELSE state.currentBet + step)
       /\ legal.minBet = (IF bigBlind > state.lastRaiseSize
                          THEN bigBlind ELSE state.lastRaiseSize)
       /\ legal.canAllIn = (s > 0)
       /\ ~(legal.canCheck /\ legal.callAmount > 0)
       /\ legal.minRaiseTo <= legal.maxRaiseTo

\* a request to a seat that owes chips, can raise above the minimum, and faces
\* a last raise size other than the big blind
C18_Witness ==
  /\ pc = "decide"
  /\ returned.hand.legal.callAmount > 0
  /\ returned.hand.legal.minRaiseTo < returned.hand.legal.maxRaiseTo
  /\ handState[1].lastRaiseSize # getBlindLevel(handState[1].handNumber).bigBlind

\* C19: once a hand is in progress, a nextDecision call for its hand number
\* continues that hand whatever the seat snapshot passed in shows: it returns
\* a decision request for the hand, or a hand_complete result that pays the
\* hand's whole pot to its winners.
C19_SeatsFixedAtHandStart ==
  [][ ( /\ pc = "request"
        /\ handState # << >>
        /\ handState[1].handNumber = handNumber
        /\ returned'.call = "nextDecision" ) =>
      \/ /\ returned'.type = "decision"
         /\ handState' # << >>
         /\ DOMAIN handState'[1].players = DOMAIN handState[1].players
      \/ /\ returned'.type = "hand_complete"
         /\ SumOver(returned'.hand.winners, DOMAIN returned'.hand.winners)
              = PotOf(handState[1]) ]_vars

\* C20: the engine holds at most one hand state; a hand state for a hand
\* number appears only through a nextDecision call for that hand number, and
\* whenever nextDecision or finalizeCurrentHand returns hand_complete no hand
\* state remains.
C20_OneHandState ==
  [][ /\ Len(handState') <= 1
      /\ ( /\ handState' # << >>
           /\ (handState = << >>
                \/ handState[1].handNumber # handState'[1].handNumber) ) =>
            /\ returned'.call = "nextDecision"
            /\ handState'[1].handNumber = handNumber
      /\ (pc # "absorb" /\ pc' = "absorb") =>
            /\ returned'.type = "hand_complete"
            /\ handState' = << >> ]_vars

\* C21: a nextDecision call made with no hand state and no active seat (every
\* seat passed is eliminated or has no chips) is a state error: it returns no
\* result.
C21_NoActiveSeatIsError ==
  [][ ( /\ pc = "request"
        /\ handState = << >>
        /\ Alive(seats) = {}
        /\ returned'.call = "nextDecision" ) =>
      returned'.type = "error" ]_vars

\* C22: applyDecision or finalizeCurrentHand called while no hand is in
\* progress raises an error and leaves the engine as it was: no hand state,
\* the same button seat, the same table seat order.
C22_NoHandIsError ==
  [][ ( /\ pc = "request"
        /\ handState = << >>
        /\ returned'.call \in {"applyDecision", "finalizeCurrentHand"} ) =>
      /\ returned'.type = "error"
      /\ handState' = << >>
      /\ buttonSeatIndex' = buttonSeatIndex
      /\ tableSeatOrder' = tableSeatOrder ]_vars

\* both calls were refused between the first hand and the second, the button
\* and the table seat order of the first hand being kept
C22_Witness ==
  /\ pc = "request"
  /\ handNumber = 2
  /\ handState = << >>
  /\ returned.type = "error"
  /\ returned.call = "applyDecision"
  /\ buttonSeatIndex >= 0
  /\ Len(tableSeatOrder) >= 2

\* C23: nextDecision called for a new hand with exactly one seat that is not
\* eliminated and has chips returns hand_complete with that seat as the sole
\* winner of amount 0, an empty board and every stack as it was passed; it
\* creates no hand state (so no cards are dealt and no blinds posted) and
\* leaves the button and the table seat order alone.
C23_SingleActiveSeat ==
  [][ ( /\ pc = "request"
        /\ handState = << >>
        /\ Cardinality(Alive(seats)) = 1
        /\ returned'.call = "nextDecision" ) =>
      /\ returned'.type = "hand_complete"
      /\ DOMAIN returned'.hand.winners = Alive(seats)
      /\ \A s \in Alive(seats) : returned'.hand.winners[s] = 0
      /\ returned'.hand.board = << >>
      /\ \A s \in DOMAIN seats :
           returned'.hand.updatedStacks[s].stack = seats[s].stack
      /\ handState' = << >>
      /\ buttonSeatIndex' = buttonSeatIndex
      /\ tableSeatOrder' = tableSeatOrder
      /\ seats' = seats ]_vars

\* the first hand was asked for with one seat holding chips: the result names
\* that seat alone and the engine still has no button
C23_Witness ==
  /\ pc = "absorb"
  /\ handNumber = 1
  /\ handState = << >>
  /\ buttonSeatIndex = NoSeat
  /\ tableSeatOrder = << >>
  /\ \A s \in Alive(seats) : returned.hand.winners[s] = 0
  /\ returned.call = "nextDecision"
  /\ returned.type = "hand_complete"
  /\ Cardinality(Alive(seats)) = 1
  /\ DOMAIN returned.hand.winners = Alive(seats)
  /\ returned.hand.board = << >>

\* the invocations of tickMatch that are executing
InFlight == { t \in TickIds : tickAt[t] \in InFlightAt }

\* C24: at most one tick of a match is executing at any time; an invocation
\* that found another tick in flight returned without calling the engine or the
\* match store; and once no tick is executing the in-flight marker is released,
\* also when the tick ended with an error.
C24_TickSerialized ==
  /\ Cardinality(InFlight) <= 1
  /\ \A t \in TickIds : tickAt[t] = "skipped" => ~tickTouched[t]
  /\ InFlight = {} => ~inFlightTicks

\* one tick failed and released the marker, a later one is awaiting the agent,
\* and a third invoked meanwhile returned at once
C24_Witness ==
  /\ inFlightTicks
  /\ \E a, b, c \in TickIds :
       /\ tickAt[a] = "failed"
       /\ tickAt[b] = "decide"
       /\ tickAt[c] = "skipped"
       /\ ~tickTouched[c]

\* the number of community cards a street shows
BoardSize(street) ==
  CASE street = "preflop" -> 0
    [] street = "flop" -> 3
    [] street = "turn" -> 4
    [] OTHER -> 5

\* C25: in every hand state the board has 0 cards on preflop, 3 on the flop,
\* 4 on the turn and 5 on the river, also after an all-in run-out, which leaves
\* the street at river with 5 cards.
C25_BoardLength ==
  \A st \in HandStates :
    /\ st.street \in Range(STREETS)
    /\ Len(st.board) = BoardSize(st.street)

\* a hand settled after a run-out: the last action was made preflop, and the
\* settled state stands at the river with five cards
C25_Witness ==
  \E i \in DOMAIN settlement :
    LET st == settlement[i].state
    IN /\ st.street = "river"
       /\ Len(st.board) = 5
       /\ Len(st.actions) > 0
       /\ st.actions[Len(st.actions)].street = "preflop"
       /\ Cardinality(getLivePlayers(st)) >= 2

\* the cards a hand state holds: hole cards, board and remaining deck, in one
\* sequence
CardsOf(state) ==
  LET sorted == SortAscending(DOMAIN state.players)
      holes[k \in 0..Len(sorted)] ==
        IF k = 0 THEN << >>
        ELSE holes[k - 1] \o state.players[sorted[k]].holeCards
  IN holes[Len(sorted)] \o state.board \o state.deck

\* a sequence that holds every card of the deck exactly once
IsFullDeck(cards) ==
  /\ Len(cards) = 52
  /\ Range(cards) = Range(createDeck)
  /\ Cardinality(Range(createDeck)) = 52

\* C26: the shuffled deck of every hand seed is a permutation of the 52
\* distinct cards, and in every hand state the hole cards, the board and the
\* remaining deck are pairwise disjoint and together are exactly those 52
\* cards.
C26_NoCardTwice ==
  /\ \A h \in DOMAIN HandDecks : IsFullDeck(HandDecks[h])
  /\ \A st \in HandStates :
       /\ \A s \in DOMAIN st.players : Len(st.players[s].holeCards) = 2
       /\ IsFullDeck(CardsOf(st))

\* a hand of three seats that reached the river: six hole cards, five board
\* cards and 41 cards left in the deck
C26_Witness ==
  \E i \in DOMAIN handState :
    /\ Cardinality(DOMAIN handState[i].players) >= 3
    /\ Len(handState[i].board) = 5
    /\ Len(handState[i].deck) = 52 - 5 - 2 * Cardinality(DOMAIN handState[i].players)
    /\ handState[i].handNumber = 2

\* C27: when the agent's output is still invalid after the one retry, the
\* decision that is resolved and applied is a forced fold.
C27_ForcedFold ==
  [][ ( /\ pc = "decide"
        /\ returned'.call = "applyDecision"
        /\ returned'.resolution.reason = "invalid_output_exhausted" ) =>
      /\ returned'.resolution.retried
      /\ returned'.resolution.decision.action = "fold" ]_vars

\* the action record applyDecision pushed in the step to the next state
LastAction == handState'[1].actions[Len(handState'[1].actions)]

\* the step applies a decision to a pending request
AppliesDecision ==
  /\ pc = "decide"
  /\ handState # << >>
  /\ handState' # << >>
  /\ returned'.call = "applyDecision"
  /\ Len(handState'[1].actions) > 0

\* C28: after a bet or raise with any amount, the actor's target is at least
\* the street's bet level before the action and at most its street
\* contribution plus its stack, and the chips taken from the stack are the
\* target minus the previous street contribution.
C28_BetRaiseClamped ==
  [][ ( AppliesDecision /\ LastAction.action \in {"bet", "raise"} ) =>
      LET before == handState[1]
          actor == before.players[LastAction.seatIndex]
          after == handState'[1].players[LastAction.seatIndex]
          target == LastAction.amount
      IN /\ target >= before.currentBet
         /\ target <= actor.streetContribution + actor.stack
         /\ actor.stack - after.stack = target - actor.streetContribution
         /\ after.totalContribution - actor.totalContribution =
              target - actor.streetContribution ]_vars

\* the seats of a hand state that still owe chips to the current bet
FacingWager(state) ==
  { s \in DOMAIN state.players :
      /\ ~state.players[s].folded
      /\ ~state.players[s].allIn
      /\ state.players[s].streetContribution < state.currentBet }

\* C29: a street never closes while a seat that is neither folded nor all-in
\* has a street contribution below the current bet: when an applied decision
\* leaves such a seat, the hand stays on its street, no card is dealt, the hand
\* is not complete, and the next decision request goes to a seat that can call
\* or fold.
C29_WagerAnswered ==
  [][ ( /\ AppliesDecision
        /\ FacingWager(applyAction(handState[1], LastAction.seatIndex,
                                   [ action |-> LastAction.action,
                                     amount |-> LastAction.amount ])) # {} ) =>
      /\ ~returned'.ctx.handComplete
      /\ ~returned'.ctx.newStreetStarted
      /\ handState'[1].street = handState[1].street
      /\ handState'[1].board = handState[1].board
      /\ FacingWager(handState'[1]) # {} ]_vars

\* C30: a bet or raise clears the acted-this-street flag of every other seat
\* that is neither folded nor all-in and of no other seat: the actor is marked
\* as acted, folded and all-in seats keep their flag, and nobody's folded or
\* all-in mark changes but the actor's. Observed on the steps that leave the
\* hand on its street.
C30_ReopenOnRaise ==
  [][ ( /\ AppliesDecision
        /\ LastAction.action \in {"bet", "raise"}
        /\ ~returned'.ctx.handComplete
        /\ ~returned'.ctx.newStreetStarted ) =>
      \A s \in DOMAIN handState[1].players :
        LET before == handState[1].players[s]
            after == handState'[1].players[s]
        IN IF s = LastAction.seatIndex
           THEN after.actedThisStreet
           ELSE /\ after.folded = before.folded
                /\ after.allIn = before.allIn
                /\ after.actedThisStreet =
                     IF before.folded \/ before.allIn
                     THEN before.actedThisStreet
                     ELSE FALSE ]_vars

\* heads-up preflop: the button had called the big blind, and the big blind's
\* raise left it to act again, its flag cleared, with chips behind
C30_Witness ==
  \E i \in DOMAIN handState :
    LET st == handState[i]
        preflopOrder == st.orderByStreet["preflop"]
    IN /\ st.street = "preflop"
       /\ Len(st.actions) > 0
       /\ st.actions[Len(st.actions)].action = "raise"
       /\ \E s \in DOMAIN st.players :
            /\ s # st.actions[Len(st.actions)].seatIndex
            /\ s # preflopOrder[Len(preflopOrder)]
            /\ st.players[s].streetContribution >= getBlindLevel(st.handNumber).bigBlind
            /\ ~st.players[s].folded
            /\ ~st.players[s].allIn
            /\ ~st.players[s].actedThisStreet

\* C31: an all-in whose resulting street contribution does not exceed the
\* current bet leaves the current bet, the last raise size and every other
\* seat's acted flag as they were (observed on the steps that open no new
\* street); and when every seat that can still act has then acted and matched,
\* nobody is asked again on that street: the street closes or the hand is
\* complete.
C31_ShortAllIn ==
  [][ ( /\ AppliesDecision
        /\ LastAction.action = "all_in"
        /\ LET actor == handState[1].players[LastAction.seatIndex]
           IN actor.streetContribution + actor.stack <= handState[1].currentBet ) =>
      LET before == handState[1]
          after == handState'[1]
          others == DOMAIN before.players \ {LastAction.seatIndex}
          able == { s \in others : ~before.players[s].folded /\ ~before.players[s].allIn }
      IN /\ ~returned'.ctx.newStreetStarted =>
              /\ after.currentBet = before.currentBet
              /\ after.lastRaiseSize = before.lastRaiseSize
              /\ \A s \in others :
                   after.players[s].actedThisStreet = before.players[s].actedThisStreet
         /\ ( \A s \in able : /\ before.players[s].actedThisStreet
                              /\ before.players[s].streetContribution = before.currentBet ) =>
              ( returned'.ctx.newStreetStarted \/ returned'.ctx.handComplete ) ]_vars

\* a seat went all-in for no more than the current bet while another seat,
\* neither folded nor all-in, had acted: that seat is still marked as acted
C31_Witness ==
  \E i \in DOMAIN handState :
    LET st == handState[i]
        last == st.actions[Len(st.actions)]
    IN /\ Len(st.actions) > 0
       /\ last.action = "all_in"
       /\ last.street = st.street
       /\ last.amount > 0
       /\ st.players[last.seatIndex].streetContribution <= st.currentBet
       /\ \E s \in DOMAIN st.players :
            /\ s # last.seatIndex
            /\ ~st.players[s].folded
            /\ ~st.players[s].allIn
            /\ st.players[s].actedThisStreet

\* C32: whenever an applied bet, raise or all-in increases the current bet from
\* oldBet to newBet, the last raise size becomes newBet - oldBet.
C32_RaiseSizeFollowsBet ==
  [][ ( /\ AppliesDecision
        /\ LastAction.action \in {"bet", "raise", "all_in"}
        /\ handState'[1].street = handState[1].street
        /\ handState'[1].currentBet > handState[1].currentBet ) =>
      handState'[1].lastRaiseSize =
        handState'[1].currentBet - handState[1].currentBet ]_vars

\* C33: within one street, applying a decision never lowers any seat's street
\* contribution, and the actor's street contribution and total contribution
\* grow by the same number of chips.
C33_ContributionsGrow ==
  [][ ( AppliesDecision /\ ~returned'.ctx.newStreetStarted ) =>
      LET before == handState[1].players
          after == handState'[1].players
          actor == LastAction.seatIndex
      IN /\ \A s \in DOMAIN before :
              after[s].streetContribution >= before[s].streetContribution
         /\ after[actor].streetContribution - before[actor].streetContribution =
              after[actor].totalContribution - before[actor].totalContribution ]_vars

\* the big-blind seat of a hand state: the last seat of the preflop order
BigBlindSeat(state) ==
  state.orderByStreet["preflop"][Len(state.orderByStreet["preflop"])]

\* C34: preflop, when another seat calls or folds while the big-blind seat,
\* not all-in, has not acted yet and at least two seats can still act, the
\* street does not close; and the decision request the big-blind seat gets
\* when nobody has raised offers a check and a raise.
C34_BigBlindOption ==
  [][ /\ ( /\ AppliesDecision
           /\ handState[1].street = "preflop"
           /\ LastAction.action \in {"call", "fold"}
           /\ LastAction.seatIndex # BigBlindSeat(handState[1])
           /\ LET bb == handState[1].players[BigBlindSeat(handState[1])]
              IN ~bb.folded /\ ~bb.allIn /\ ~bb.actedThisStreet
           /\ Cardinality(getEligiblePlayers(handState'[1])) >= 2 ) =>
         /\ ~returned'.ctx.newStreetStarted
         /\ ~returned'.ctx.handComplete
         /\ handState'[1].street = "preflop"
         /\ ~handState'[1].players[BigBlindSeat(handState[1])].actedThisStreet
      /\ ( /\ pc = "request"
           /\ returned'.call = "nextDecision"
           /\ returned'.type = "decision"
           /\ returned'.hand.street = "preflop"
           /\ returned'.hand.actorSeatIndex = BigBlindSeat(handState'[1])
           /\ handState'[1].currentBet = getBlindLevel(handState'[1].handNumber).bigBlind
           /\ handState'[1].players[BigBlindSeat(handState'[1])].streetContribution =
                handState'[1].currentBet ) =>
         /\ returned'.hand.legal.canCheck
         /\ ~returned'.hand.legal.canFold
         /\ returned'.hand.legal.maxRaiseTo > handState'[1].currentBet ]_vars

\* the others have called and the big-blind seat is asked, preflop, with the
\* bet still at the big blind: it may check
C34_Witness ==
  /\ pc = "decide"
  /\ returned.type = "decision"
  /\ returned.hand.street = "preflop"
  /\ \E i \in DOMAIN handState :
       /\ returned.hand.actorSeatIndex = BigBlindSeat(handState[i])
       /\ Len(handState[i].actions) > 0
       /\ handState[i].actions[Len(handState[i].actions)].action = "call"
       /\ handState[i].currentBet = getBlindLevel(handState[i].handNumber).bigBlind
       /\ Cardinality(getEligiblePlayers(handState[i])) >= 2
  /\ returned.hand.legal.canCheck

\* the most a seat that contributed c can be owed: what every seat put in, up
\* to c
CappedPot(state, c) ==
  SumOver([ s \in DOMAIN state.players |-> Min(state.players[s].totalContribution, c) ],
          DOMAIN state.players)

\* C35: at settlement a seat whose total contribution is c never wins more
\* than the sum over all seats of min(that seat's total contribution, c).
C35_SidePotCap ==
  \A r \in Settlements :
    \A s \in DOMAIN r.winners :
      r.winners[s] <= CappedPot(r.state, r.state.players[s].totalContribution)

\* C36: in every hand state each seat's stack is at least 0 and its all-in
\* flag is set exactly when its stack is 0; and the actor of every decision
\* request has chips and is offered the all-in.
C36_AllInIffEmpty ==
  /\ \A st \in HandStates : \A s \in DOMAIN st.players :
       /\ st.players[s].stack >= 0
       /\ st.players[s].allIn <=> st.players[s].stack = 0
  /\ ( pc = "decide" /\ returned.type = "decision" ) =>
       /\ returned.hand.seats[returned.hand.actorSeatIndex].stack > 0
       /\ ~returned.hand.seats[returned.hand.actorSeatIndex].allIn
       /\ returned.hand.legal.canAllIn

\* a decision request is pending while one seat of the hand is all-in with an
\* empty stack
C36_Witness ==
  /\ pc = "decide"
  /\ returned.type = "decision"
  /\ \E i \in DOMAIN handState : \E s \in DOMAIN handState[i].players :
       /\ handState[i].players[s].allIn
       /\ handState[i].players[s].stack = 0
       /\ handState[i].players[s].totalContribution > 0
       /\ Len(handState[i].actions) > 0

\* the small-blind seat of a hand state: the seat before the big blind in the
\* preflop order (the button, heads-up)
SmallBlindSeat(state) ==
  state.orderByStreet["preflop"][Len(state.orderByStreet["preflop"]) - 1]

\* what a seat that starts the hand with `stack` chips posts of a blind
BlindPosted(state, s, stack) ==
  LET level == getBlindLevel(state.handNumber)
  IN IF s = BigBlindSeat(state) THEN Min(stack, level.bigBlind)
     ELSE IF s = SmallBlindSeat(state) THEN Min(stack, level.smallBlind)
     ELSE 0

\* C37: a new hand starts on preflop with every blind seat having posted
\* min(its stack, the blind), flagged all-in exactly when that emptied its
\* stack, every other seat with no contribution and its whole stack, and with
\* currentBet and lastRaiseSize both at the level's full big blind, whatever
\* the big-blind seat could post. Observed on the first decision request of
\* the hand.
C37_HandInitialization ==
  [][ ( /\ pc = "request"
        /\ handState = << >>
        /\ returned'.call = "nextDecision"
        /\ returned'.type = "decision" ) =>
      LET st == handState'[1]
          level == getBlindLevel(handNumber)
      IN /\ st.handNumber = handNumber
         /\ st.street = "preflop"
         /\ st.board = << >>
         /\ st.actions = << >>
         /\ st.currentBet = level.bigBlind
         /\ st.lastRaiseSize = level.bigBlind
         /\ DOMAIN st.players = Alive(seats)
         /\ \A s \in DOMAIN st.players :
              LET posted == BlindPosted(st, s, seats[s].stack)
              IN /\ st.players[s].stack = seats[s].stack - posted
                 /\ st.players[s].totalContribution = posted
                 /\ st.players[s].streetContribution = posted
                 /\ st.players[s].allIn <=> (st.players[s].stack = 0)
                 /\ ~st.players[s].folded
                 /\ ~st.players[s].actedThisStreet ]_vars

\* a hand just started in which the big-blind seat could not post the whole
\* big blind: it is all-in for less, and the bet to match is the full amount
C37_Witness ==
  /\ pc = "decide"
  /\ \E i \in DOMAIN handState :
       LET st == handState[i]
           bb == st.players[BigBlindSeat(st)]
       IN /\ st.actions = << >>
          /\ st.street = "preflop"
          /\ bb.allIn
          /\ bb.streetContribution < getBlindLevel(st.handNumber).bigBlind
          /\ st.currentBet = getBlindLevel(st.handNumber).bigBlind
          /\ st.players[SmallBlindSeat(st)].streetContribution > 0

\* the hand state right after the branch of the applied decision, before the
\* street is closed or the actor moved
AfterAction ==
  applyAction(handState[1], LastAction.seatIndex,
              [ action |-> LastAction.action, amount |-> LastAction.amount ])

\* C38: when an applied decision closes a street before the river, the hand
\* moves to the next street; every street contribution is 0; exactly the
\* folded and all-in seats are marked as acted; 3 cards are dealt from the top
\* of the deck for the flop and 1 for the turn or river; currentBet is 0 and
\* lastRaiseSize the big blind; and every seat's stack, total contribution,
\* folded flag, all-in flag and hole cards are what the decision left.
C38_StreetAdvance ==
  [][ ( AppliesDecision /\ returned'.ctx.newStreetStarted ) =>
      LET mid == AfterAction
          after == handState'[1]
          dealt == IF mid.street = "preflop" THEN 3 ELSE 1
      IN /\ mid.street # "river"
         /\ after.street = STREETS[IndexOf(STREETS, mid.street) + 2]
         /\ after.board = mid.board \o SubSeq(mid.deck, 1, dealt)
         /\ after.deck = SubSeq(mid.deck, dealt + 1, Len(mid.deck))
         /\ after.currentBet = 0
         /\ after.lastRaiseSize = getBlindLevel(after.handNumber).bigBlind
         /\ ~returned'.ctx.handComplete
         /\ \A s \in DOMAIN mid.players :
              /\ after.players[s].streetContribution = 0
              /\ after.players[s].actedThisStreet <=>
                   (mid.players[s].folded \/ mid.players[s].allIn)
              /\ after.players[s].stack = mid.players[s].stack
              /\ after.players[s].totalContribution = mid.players[s].totalContribution
              /\ after.players[s].folded = mid.players[s].folded
              /\ after.players[s].allIn = mid.players[s].allIn
              /\ after.players[s].holeCards = mid.players[s].holeCards ]_vars

\* the flop has just been opened by a decision: three cards lie on the board,
\* an all-in seat starts the street marked as acted and another seat, with
\* chips, is still to act
C38_Witness ==
  /\ pc = "request"
  /\ returned.call = "applyDecision"
  /\ returned.ctx.newStreetStarted
  /\ \E i \in DOMAIN handState :
       LET st == handState[i]
       IN /\ st.street = "flop"
          /\ Len(st.board) = 3
          /\ st.currentBet = 0
          /\ \E s \in DOMAIN st.players :
               st.players[s].allIn /\ st.players[s].actedThisStreet
          /\ \E s \in DOMAIN st.players :
               /\ ~st.players[s].actedThisStreet
               /\ st.players[s].stack > 0
               /\ st.players[s].totalContribution > 0
               /\ st.players[s].streetContribution = 0

\* C39: while a decision request is pending, a nextDecision call with the same
\* seats and hand number, no decision having been applied in between, returns
\* the same decision request and changes nothing: the hand state (cards,
\* blinds, actor pointer), the button and the table seat order stay.
C39_RequestRepeatable ==
  [][ ( /\ pc = "decide"
        /\ returned.type = "decision"
        /\ returned'.call = "nextDecision" ) =>
      /\ returned' = returned
      /\ handState' = handState
      /\ buttonSeatIndex' = buttonSeatIndex
      /\ tableSeatOrder' = tableSeatOrder
      /\ pc' = "decide" ]_vars

\* a decision request is pending in a hand in which two seats can still act
\* and a decision has already been applied: asking again is possible here
C39_Witness ==
  /\ pc = "decide"
  /\ returned.call = "nextDecision"
  /\ returned.type = "decision"
  /\ \E i \in DOMAIN handState :
       /\ Len(handState[i].actions) > 0
       /\ Cardinality(getEligiblePlayers(handState[i])) >= 2
       /\ ActorSeat(handState[i]) = returned.hand.actorSeatIndex
       /\ handState[i].actorPointer > 0

\* C40: the runner finalizes the match only when at most one non-eliminated
\* seat remains or the hand cap is exceeded; when a hand ends while two or
\* more seats still hold chips, also a hand nextDecision reported complete
\* after a run-out, the hand number advances by one and the match goes on.
C40_MatchGoesOn ==
  [][ pc = "absorb" =>
      LET remainingSeats == { s \in DOMAIN seats' : ~seats'[s].isEliminated }
      IN IF Cardinality(remainingSeats) <= 1 \/ handNumber + 1 > MaxHands
         THEN pc' = "done"
         ELSE pc' = "request" /\ handNumber' = handNumber + 1 ]_vars

====
